---- MODULE Spec2Model ----
(***************************************************************************)
(* Well-plate analyzer: the colorimetric pipeline of processWellPlate      *)
(* (sampling, robust colour, calibration projection, IC50) as a state      *)
(* machine, and calculateIC50 as a function of its own inputs.             *)
(*                                                                         *)
(* Numbers.  JavaScript numbers are modelled by integers and exact         *)
(* rationals.  Coordinates are JS numbers that may be NaN.  The colour     *)
(* converter works in fixed point; intensities, viabilities and IC50       *)
(* values are exact rationals [n, d].  calculateIC50Rounded is            *)
(* calculateIC50 in binary floating point, every operation rounded to the  *)
(* nearest number with SignificandBits bits of significand.                *)
(***************************************************************************)
EXTENDS Integers, Sequences, FiniteSets, TLC

(***************************************************************************)
(* Bounds of the model.                                                    *)
(***************************************************************************)
\* Image width and height in pixels.
ImgW == 4
ImgH == 4
\* Largest rowCount and colCount of an analysis.
MaxRows == 2
MaxCols == 2
\* Largest rowCount, and most rows of wells and of concentrations, given to
\* calculateIC50 on its own (the specification's example apart).
MaxDoseRows == 3
\* Most pixels given to getRobustAverageColor on its own.
MaxPixels == 4
\* Bits of significand of a floating-point number (53 in a JavaScript
\* number).
SignificandBits == 6
\* The rows of the wizard whose concentration input the user types in.
MaxTypedRows == 2

(***************************************************************************)
(* Arithmetic helpers.                                                     *)
(***************************************************************************)
Abs(a) == IF a < 0 THEN -a ELSE a

Min2(a, b) == IF a <= b THEN a ELSE b

Max2(a, b) == IF a >= b THEN a ELSE b

\* a / b rounded to the nearest integer, halves up (b > 0): Math.round.
RoundDiv(a, b) == (2 * a + b) \div (2 * b)

RECURSIVE GCD(_, _)
GCD(a, b) == IF b = 0 THEN Abs(a) ELSE GCD(b, a % b)

\* Exact rationals, kept in lowest terms with a positive denominator.
Rat(n, d) ==
    LET s == IF d < 0 THEN -1 ELSE 1
        g == GCD(Abs(n), Abs(d))
    IN  [n |-> (s * n) \div g, d |-> (s * d) \div g]

RInt(k) == [n |-> k, d |-> 1]

\* The sign of a/b - c/d (b, d > 0), by whole parts and then remainders, so
\* that no product is formed.
RECURSIVE RCmp(_, _, _, _)
RCmp(a, b, c, d) ==
    LET qa == a \div b
        qc == c \div d
        ra == a % b
        rc == c % d
    IN  IF qa < qc THEN -1
        ELSE IF qa > qc THEN 1
        ELSE IF ra = 0 /\ rc = 0 THEN 0
        ELSE IF ra = 0 THEN -1
        ELSE IF rc = 0 THEN 1
        ELSE RCmp(d, rc, b, ra)

RLess(p, q) == RCmp(p.n, p.d, q.n, q.d) < 0

RLeq(p, q) == RCmp(p.n, p.d, q.n, q.d) <= 0

RAdd(p, q) ==
    LET g == GCD(p.d, q.d)
    IN  Rat(p.n * (q.d \div g) + q.n * (p.d \div g), (p.d \div g) * q.d)

RNeg(p) == [n |-> -p.n, d |-> p.d]

RSub(p, q) == RAdd(p, RNeg(q))

RMul(p, q) ==
    LET g1 == GCD(p.n, q.d)
        g2 == GCD(q.n, p.d)
    IN  IF p.n = 0 \/ q.n = 0 THEN RInt(0)
        ELSE Rat((p.n \div g1) * (q.n \div g2), (p.d \div g2) * (q.d \div g1))

\* p / q for q # 0.
RDiv(p, q) == RMul(p, Rat(q.d, q.n))

RAbs(p) == [n |-> Abs(p.n), d |-> p.d]

(***************************************************************************)
(* JavaScript numbers that may be NaN (coordinates and vectors).           *)
(***************************************************************************)
Num(k) == [nan |-> FALSE, v |-> k]

NaN == [nan |-> TRUE, v |-> 0]

NAdd(a, b) == IF a.nan \/ b.nan THEN NaN ELSE Num(a.v + b.v)

\* k * a for a loop index k.
NScale(k, a) == IF a.nan THEN NaN ELSE Num(k * a.v)

Pt(x, y) == [x |-> x, y |-> y]

(***************************************************************************)
(* Fixed-point numbers of the colour converter: a real v is the integer    *)
(* v * Q (below 2^30 in size), so that products and quotients can be       *)
(* formed in two halves without leaving TLC's integers.                    *)
(***************************************************************************)
Q == 16777216

Sign(a) == IF a < 0 THEN -1 ELSE 1

\* a * b / Q for a, b >= 0.
FMulAbs(a, b) ==
    LET a1 == a \div 4096
        a0 == a % 4096
        b1 == b \div 4096
        b0 == b % 4096
    IN  a1 * b1 + (a1 * b0 + a0 * b1 + (a0 * b0) \div 4096) \div 4096

FMul(a, b) == Sign(a) * Sign(b) * FMulAbs(Abs(a), Abs(b))

\* Long division, four bits a step: q and r are the quotient and remainder
\* so far, n the steps left.
RECURSIVE FDivFrom(_, _, _, _)
FDivFrom(q, r, b, n) ==
    IF n = 0 THEN q
    ELSE FDivFrom(q * 16 + (r * 16) \div b, (r * 16) % b, b, n - 1)

\* a * Q / b for b > 0.
FDiv(a, b) == Sign(a) * FDivFrom(Abs(a) \div b, Abs(a) % b, b, 6)

(***************************************************************************)
(* Colour space converter.                                                 *)
(***************************************************************************)
\* Q * ((v + 0.055) / 1.055) ^ 2.4 (v / 12.92 below the knee) at v = j / 510,
\* j = 0..510: entry 2c + 1 is channel value c, entry 2k + 2 the half step
\* between k and k + 1.
GammaTable == <<
    0, 2546, 5092, 7639, 10185, 12731, 15277, 17823,
    20369, 22916, 25462, 28008, 30554, 33100, 35646, 38193,
    40739, 43285, 45831, 48377, 50923, 53491, 56146, 58876,
    61682, 64564, 67524, 70561, 73676, 76870, 80144, 83497,
    86931, 90446, 94043, 97721, 101483, 105327, 109255, 113267,
    117364, 121545, 125813, 130167, 134607, 139134, 143749, 148452,
    153244, 158125, 163095, 168155, 173306, 178547, 183880, 189304,
    194821, 200431, 206133, 211929, 217819, 223804, 229883, 236057,
    242327, 248694, 255157, 261716, 268373, 275128, 281981, 288932,
    295983, 303133, 310382, 317732, 325182, 332733, 340386, 348140,
    355996, 363955, 372016, 380181, 388449, 396821, 405298, 413879,
    422565, 431357, 440255, 449258, 458369, 467586, 476910, 486342,
    495881, 505529, 515286, 525152, 535127, 545211, 555406, 565711,
    576126, 586653, 597291, 608041, 618902, 629876, 640963, 652163,
    663476, 674902, 686443, 698098, 709868, 721752, 733752, 745867,
    758099, 770446, 782910, 795491, 808189, 821005, 833938, 846989,
    860159, 873447, 886854, 900381, 914027, 927793, 941680, 955687,
    969814, 984063, 998433, 1012925, 1027538, 1042274, 1057133, 1072114,
    1087218, 1102446, 1117798, 1133273, 1148873, 1164597, 1180447, 1196421,
    1212520, 1228746, 1245097, 1261575, 1278179, 1294909, 1311767, 1328752,
    1345865, 1363106, 1380475, 1397972, 1415598, 1433353, 1451237, 1469251,
    1487394, 1505667, 1524071, 1542605, 1561270, 1580066, 1598994, 1618053,
    1637244, 1656567, 1676023, 1695611, 1715332, 1735186, 1755173, 1775295,
    1795550, 1815939, 1836463, 1857121, 1877915, 1898843, 1919907, 1941107,
    1962442, 1983914, 2005522, 2027267, 2049149, 2071167, 2093324, 2115618,
    2138049, 2160619, 2183328, 2206175, 2229161, 2252285, 2275550, 2298953,
    2322497, 2346181, 2370005, 2393969, 2418074, 2442321, 2466708, 2491237,
    2515908, 2540720, 2565675, 2590772, 2616012, 2641395, 2666920, 2692589,
    2718402, 2744358, 2770458, 2796703, 2823092, 2849626, 2876304, 2903128,
    2930097, 2957212, 2984472, 3011879, 3039432, 3067131, 3094977, 3122970,
    3151110, 3179397, 3207832, 3236415, 3265145, 3294024, 3323052, 3352228,
    3381553, 3411027, 3440650, 3470423, 3500346, 3530418, 3560641, 3591014,
    3621538, 3652213, 3683038, 3714015, 3745144, 3776424, 3807855, 3839439,
    3871176, 3903064, 3935106, 3967300, 3999648, 4032148, 4064803, 4097611,
    4130573, 4163689, 4196960, 4230385, 4263965, 4297699, 4331589, 4365635,
    4399836, 4434193, 4468706, 4503374, 4538200, 4573182, 4608321, 4643616,
    4679069, 4714680, 4750448, 4786373, 4822457, 4858699, 4895099, 4931658,
    4968376, 5005252, 5042288, 5079483, 5116838, 5154353, 5192027, 5229862,
    5267856, 5306012, 5344328, 5382805, 5421443, 5460243, 5499204, 5538327,
    5577611, 5617058, 5656667, 5696438, 5736372, 5776469, 5816729, 5857152,
    5897738, 5938488, 5979402, 6020480, 6061722, 6103128, 6144699, 6186434,
    6228335, 6270400, 6312631, 6355027, 6397589, 6440316, 6483210, 6526270,
    6569496, 6612889, 6656448, 6700175, 6744068, 6788129, 6832357, 6876753,
    6921317, 6966048, 7010948, 7056016, 7101253, 7146659, 7192233, 7237977,
    7283889, 7329972, 7376223, 7422645, 7469237, 7515998, 7562930, 7610033,
    7657306, 7704750, 7752366, 7800152, 7848110, 7896239, 7944540, 7993013,
    8041658, 8090476, 8139465, 8188628, 8237963, 8287471, 8337152, 8387007,
    8437035, 8487236, 8537612, 8588161, 8638885, 8689783, 8740855, 8792102,
    8843524, 8895121, 8946893, 8998841, 9050964, 9103263, 9155737, 9208388,
    9261215, 9314218, 9367397, 9420754, 9474287, 9527997, 9581885, 9635949,
    9690192, 9744612, 9799210, 9853986, 9908940, 9964072, 10019383, 10074873,
    10130542, 10186389, 10242416, 10298622, 10355008, 10411573, 10468318, 10525243,
    10582349, 10639634, 10697100, 10754747, 10812575, 10870583, 10928773, 10987144,
    11045697, 11104431, 11163346, 11222444, 11281724, 11341186, 11400831, 11460658,
    11520668, 11580861, 11641236, 11701795, 11762538, 11823464, 11884573, 11945867,
    12007344, 12069006, 12130852, 12192883, 12255098, 12317497, 12380082, 12442852,
    12505807, 12568948, 12632274, 12695786, 12759484, 12823368, 12887438, 12951694,
    13016137, 13080766, 13145583, 13210586, 13275776, 13341154, 13406719, 13472472,
    13538412, 13604541, 13670857, 13737361, 13804054, 13870936, 13938006, 14005264,
    14072712, 14140349, 14208175, 14276191, 14344396, 14412790, 14481375, 14550150,
    14619114, 14688269, 14757615, 14827151, 14896878, 14966796, 15036905, 15107205,
    15177696, 15248379, 15319253, 15390320, 15461578, 15533028, 15604671, 15676506,
    15748533, 15820753, 15893166, 15965772, 16038571, 16111564, 16184750, 16258129,
    16331702, 16405469, 16479430, 16553585, 16627934, 16702478, 16777216 >>

\* sRGB channel 0..255 to linear light: c / 255 > 0.04045 takes the power
\* law, anything else c / 255 / 12.92.
srgbToLinear(c) ==
    IF c * 100000 > 4045 * 255
    THEN GammaTable[2 * c + 1]
    ELSE (c * Q * 10 + 16473) \div 32946

\* The largest f + k (k below 2 * bit, a multiple of bit) whose cube is at
\* most t: Math.pow(t, 1 / 3) by bisection.
RECURSIVE CbrtFrom(_, _, _)
CbrtFrom(t, f, bit) ==
    IF bit = 0 THEN f
    ELSE IF FMulAbs(FMulAbs(f + bit, f + bit), f + bit) <= t
         THEN CbrtFrom(t, f + bit, bit \div 2)
         ELSE CbrtFrom(t, f, bit \div 2)

\* f of rgbToLab: t > 0.008856 ? cbrt(t) : 7.787 * t + 16 / 116.
LabF(t) == IF t > 148579 THEN CbrtFrom(t, 0, Q) ELSE FMul(130644181, t) + 2314099

\* Lab channels are integers in units of 1 / LabUnit, kept even so that the
\* mean of two channel values is a whole number of units.
LabUnit == 65536

Even(v) == 2 * ((v + 1) \div 2)

rgbToLab(rgb) ==
    LET r == srgbToLinear(rgb.r)
        g == srgbToLinear(rgb.g)
        b == srgbToLinear(rgb.b)
        x == FMul(r, 6919870) + FMul(g, 5999131) + FMul(b, 3027239)
        y == FMul(r, 3568059) + FMul(g, 11998263) + FMul(b, 1210896)
        z == FMul(r, 324369) + FMul(g, 1999710) + FMul(b, 15943457)
        fx == LabF(FDiv(x, 15946240))
        fy == LabF(y)
        fz == LabF(FDiv(z, 18267536))
    IN  [l |-> Even((116 * fy - 16 * Q) \div (Q \div LabUnit)),
         a |-> Even((500 * (fx - fy)) \div (Q \div LabUnit)),
         b |-> Even((200 * (fy - fz)) \div (Q \div LabUnit))]

\* f_inv of labToRgb: t > 0.206897 ? t^3 : (t - 16 / 116) / 7.787.
LabFInv(t) ==
    IF t > 3471156 THEN FMul(FMul(t, t), t) ELSE FDiv(t - 2314099, 130644181)

\* Mutant: Math.floor instead of Math.round in clamp.
toSrgb255Floor(c) ==
    IF c > 52526
    THEN Cardinality({k \in 1..255 : GammaTable[2 * k + 1] <= c})
    ELSE IF c <= 0 THEN 0
    ELSE (c * 32946) \div (10 * Q)

\* toSrgb followed by clamp: Math.max(0, Math.min(255, Math.round(v * 255)))
\* of v = 1.055 * c^(1 / 2.4) - 0.055 above 0.0031308 and 12.92 * c below.
toSrgb255(c) ==
    IF c > 52526
    THEN Cardinality({k \in 0..254 : GammaTable[2 * k + 2] <= c})
    ELSE IF c <= 0 THEN 0
    ELSE (c * 32946 + 5 * Q) \div (10 * Q)

labToRgb(lab) ==
    LET fy == ((lab.l + 16 * LabUnit) * (Q \div LabUnit)) \div 116
        fx == (lab.a * (Q \div LabUnit)) \div 500 + fy
        fz == fy - (lab.b * (Q \div LabUnit)) \div 200
        x == FMul(LabFInv(fx), 15946240)
        y == LabFInv(fy)
        z == FMul(LabFInv(fz), 18267536)
    IN  [r |-> toSrgb255(FMul(x, 54365800) - FMul(y, 25788905) - FMul(z, 8363969)),
         g |-> toSrgb255(FMul(y, 31474238) + FMul(z, 697194) - FMul(x, 16261585)),
         b |-> toSrgb255(FMul(x, 933541) - FMul(y, 3422987) + FMul(z, 17737296))]

(***************************************************************************)
(* The decoded image and the canvas.                                       *)
(***************************************************************************)
\* Well colours of a resazurin-like assay, blue (dead) to pink (alive).
Palette == << [r |-> 30, g |-> 60, b |-> 200],
              [r |-> 150, g |-> 60, b |-> 180],
              [r |-> 240, g |-> 90, b |-> 160] >>

\* An image is ImgW x ImgH pixels in two horizontal bands of one colour each.
Images == [top : 1..Len(Palette), bottom : 1..Len(Palette)]

InBounds(px, py) == px \in 0..(ImgW - 1) /\ py \in 0..(ImgH - 1)

PixelAt(img, px, py) ==
    IF 2 * py < ImgH THEN Palette[img.top] ELSE Palette[img.bottom]

\* CanvasRenderingContext2D.getImageData(sx, sy, sw, sh) on the canvas the
\* image was drawn to: sw * sh RGBA pixels, row by row; a pixel outside the
\* canvas is transparent black; a non-finite argument throws.
getImageData(img, sx, sy, sw, sh) ==
    IF sx.nan \/ sy.nan THEN [ok |-> FALSE, data |-> << >>]
    ELSE [ok |-> TRUE,
          data |-> [i \in 1..(sw * sh) |->
              LET px == sx.v + ((i - 1) % sw)
                  py == sy.v + ((i - 1) \div sw)
              IN  IF InBounds(px, py)
                  THEN [r |-> PixelAt(img, px, py).r, g |-> PixelAt(img, px, py).g,
                        b |-> PixelAt(img, px, py).b, a |-> 255]
                  ELSE [r |-> 0, g |-> 0, b |-> 0, a |-> 0]]]

(***************************************************************************)
(* Pixel sampler.                                                          *)
(***************************************************************************)
\* A radius is a JS number >= 0 or NaN, kept as its exact square.
Radius(sq) == [nan |-> FALSE, sq |-> sq]

RadiusNaN == [nan |-> TRUE, sq |-> RInt(0)]

\* Math.round of the square root of sq: the largest k with k - 1/2 <= sqrt(sq).
RECURSIVE RoundSqrtFrom(_, _)
RoundSqrtFrom(sq, k) ==
    IF RLeq(Rat((2 * k + 1) * (2 * k + 1), 4), sq) THEN RoundSqrtFrom(sq, k + 1)
    ELSE k

\* Math.max(1, Math.round(radius)); Math.max of NaN is NaN.
sampleRadius(radius) == Max2(1, RoundSqrtFrom(radius.sq, 0))

\* The indices (0-based, in order) into the 2r x 2r window that the disk
\* test dist <= radius keeps.
RECURSIVE keptFrom(_, _)
keptFrom(r, i) ==
    IF i >= 4 * r * r THEN << >>
    ELSE LET px == i % (2 * r)
             py == i \div (2 * r)
             rest == keptFrom(r, i + 1)
         IN  IF (px - r) * (px - r) + (py - r) * (py - r) <= r * r
             THEN << i >> \o rest ELSE rest

\* The image position of window index i for a sample centred on (x, y).
windowPos(x, y, r, i) == Pt(x.v - r + (i % (2 * r)), y.v - r + (i \div (2 * r)))

\* getPixelData, with the positions the pixels were read at and the integer
\* radius it used beside them.
getPixelData(img, x, y, radius) ==
    LET r == sampleRadius(radius)
        got == getImageData(img, NAdd(x, Num(-r)), NAdd(y, Num(-r)), r * 2, r * 2)
        kept == keptFrom(r, 0)
    IN  IF radius.nan \/ ~got.ok THEN [pixels |-> << >>, at |-> << >>, used |-> r]
        ELSE [used |-> r,
              pixels |-> [j \in 1..Len(kept) |->
                  [r |-> got.data[kept[j] + 1].r, g |-> got.data[kept[j] + 1].g,
                   b |-> got.data[kept[j] + 1].b]],
              at |-> [j \in 1..Len(kept) |-> windowPos(x, y, r, kept[j])]]

(***************************************************************************)
(* Robust colour estimator.                                                *)
(***************************************************************************)
\* s with v put before the first element greater than it (s ascending).
RECURSIVE InsertAsc(_, _)
InsertAsc(s, v) ==
    IF s = << >> THEN << v >>
    ELSE IF v < Head(s) THEN << v >> \o s
    ELSE << Head(s) >> \o InsertAsc(Tail(s), v)

RECURSIVE SortAsc(_)
SortAsc(s) == IF s = << >> THEN << >> ELSE InsertAsc(SortAsc(Tail(s)), Head(s))

\* Mutant: the mean instead of the median.
RECURSIVE sumOf(_)
sumOf(sorted) == IF sorted = << >> THEN 0 ELSE Head(sorted) + sumOf(Tail(sorted))

meanOf(sorted) == sumOf(sorted) \div Len(sorted)

\* Mutant: the upper middle value, also for an even count.
medianOfUpper(sorted) == sorted[Len(sorted) \div 2 + 1]

\* The median of the sorted values: the middle one, or the mean of the two
\* middle ones.
medianOf(sorted) ==
    LET mid == Len(sorted) \div 2
    IN  IF Len(sorted) % 2 = 0
        THEN (sorted[mid] + sorted[mid + 1]) \div 2
        ELSE sorted[mid + 1]

medianLab(pixels) ==
    LET labPixels == [i \in 1..Len(pixels) |-> rgbToLab(pixels[i])]
    IN  [l |-> medianOf(SortAsc([i \in 1..Len(pixels) |-> labPixels[i].l])),
         a |-> medianOf(SortAsc([i \in 1..Len(pixels) |-> labPixels[i].a])),
         b |-> medianOf(SortAsc([i \in 1..Len(pixels) |-> labPixels[i].b]))]

\* Mutant: one pixel is treated as no pixel.
getRobustAverageColorNoSingle(pixels) ==
    IF Len(pixels) <= 1 THEN [r |-> 0, g |-> 0, b |-> 0]
    ELSE labToRgb(medianLab(pixels))

getRobustAverageColor(pixels) ==
    IF Len(pixels) = 0 THEN [r |-> 0, g |-> 0, b |-> 0]
    ELSE IF Len(pixels) = 1 THEN pixels[1]
    ELSE labToRgb(medianLab(pixels))

(***************************************************************************)
(* Dose-response / IC50 estimator.                                         *)
(***************************************************************************)
IC50Null == [kind |-> "null", value |-> RInt(0), units |-> ""]

\* An uncaught TypeError.
IC50Throws == [kind |-> "throws", value |-> RInt(0), units |-> ""]

IC50Value(v, units) == [kind |-> "value", value |-> v, units |-> units]

\* Mutant: zero counts as a dose.
positiveCountWithZero(rowConcentrations) ==
    Cardinality({i \in 1..Len(rowConcentrations) : rowConcentrations[i] >= 0})

\* rowConcentrations.filter(c => c > 0).length
positiveCount(rowConcentrations) ==
    Cardinality({i \in 1..Len(rowConcentrations) : rowConcentrations[i] > 0})

\* The viabilities pushed to viabilitiesByRow[row], in well order.
RECURSIVE viabilitiesOfRow(_, _)
viabilitiesOfRow(wellResults, row) ==
    IF wellResults = << >> THEN << >>
    ELSE (IF Head(wellResults).row = row THEN << Head(wellResults).viability >>
          ELSE << >>) \o viabilitiesOfRow(Tail(wellResults), row)

\* Entry k is viabilitiesByRow[k - 1]; a well of a row >= rowCount is dropped.
viabilitiesByRow(wellResults, rowCount) ==
    [k \in 1..rowCount |-> viabilitiesOfRow(wellResults, k - 1)]

RECURSIVE RSum(_)
RSum(s) == IF s = << >> THEN RInt(0) ELSE RAdd(Head(s), RSum(Tail(s)))

\* The callback of rowConcentrations.map for entry i (rowIndex i - 1): no
\* point, a point, or a TypeError (viabilities undefined, .reduce of it).
dataPointOf(rowConcentrations, byRow, i) ==
    IF rowConcentrations[i] <= 0 THEN [kind |-> "null"]
    ELSE IF i \in DOMAIN byRow /\ Len(byRow[i]) = 0 THEN [kind |-> "null"]
    ELSE IF i \notin DOMAIN byRow THEN [kind |-> "throws"]
    ELSE [kind |-> "point",
          concentration |-> rowConcentrations[i],
          viability |-> RDiv(RSum(byRow[i]), RInt(Len(byRow[i])))]

\* p put after every element of s (ascending) whose concentration is <= p's:
\* a stable sort by concentration.
RECURSIVE insertPoint(_, _)
insertPoint(s, p) ==
    IF s = << >> THEN << p >>
    ELSE IF p.concentration < Head(s).concentration THEN << p >> \o s
    ELSE << Head(s) >> \o insertPoint(Tail(s), p)

RECURSIVE sortPoints(_)
sortPoints(s) ==
    IF s = << >> THEN << >>
    ELSE insertPoint(sortPoints(SubSeq(s, 1, Len(s) - 1)), s[Len(s)])

\* The points of the mapped entries that are not null, in row order.
RECURSIVE pointsOf(_)
pointsOf(mapped) ==
    IF mapped = << >> THEN << >>
    ELSE (IF Head(mapped).kind = "point" THEN << Head(mapped) >> ELSE << >>)
         \o pointsOf(Tail(mapped))

\* dataPoints of calculateIC50 (when the map does not throw).
dataPoints(wellResults, rowConcentrations, rowCount) ==
    LET byRow == viabilitiesByRow(wellResults, rowCount)
    IN  sortPoints(pointsOf([i \in 1..Len(rowConcentrations) |->
                                dataPointOf(rowConcentrations, byRow, i)]))

Fifty == RInt(50)

crosses(cur, nxt) ==
    \/ RLeq(Fifty, cur.viability) /\ RLess(nxt.viability, Fifty)
    \/ RLess(cur.viability, Fifty) /\ RLeq(Fifty, nxt.viability)

\* Mutant: the last crossing pair instead of the first.
RECURSIVE lastCrossing(_, _)
lastCrossing(points, i) ==
    IF i > Len(points) - 1 THEN 0
    ELSE IF lastCrossing(points, i + 1) # 0 THEN lastCrossing(points, i + 1)
    ELSE IF crosses(points[i], points[i + 1]) THEN i
    ELSE 0

\* The index i of the first adjacent pair (i, i + 1) that crosses 50, from
\* index i on; 0 when there is none.
RECURSIVE firstCrossing(_, _)
firstCrossing(points, i) ==
    IF i > Len(points) - 1 THEN 0
    ELSE IF crosses(points[i], points[i + 1]) THEN i
    ELSE firstCrossing(points, i + 1)

\* The pair <<p1, p2>> at crossing i: p1 the lower viability.
crossingPair(points, i) ==
    IF RLess(points[i].viability, points[i + 1].viability)
    THEN << points[i], points[i + 1] >>
    ELSE << points[i + 1], points[i] >>

\* Mutant: the interpolation starts from conc2 instead of conc1.
interpolateFromP2(p1, p2) ==
    RAdd(RInt(p2.concentration),
         RDiv(RMul(RSub(Fifty, p1.viability),
                   RInt(p2.concentration - p1.concentration)),
              RSub(p2.viability, p1.viability)))

\* conc1 + (50 - viability1) * (conc2 - conc1) / (viability2 - viability1)
interpolate(p1, p2) ==
    RAdd(RInt(p1.concentration),
         RDiv(RMul(RSub(Fifty, p1.viability),
                   RInt(p2.concentration - p1.concentration)),
              RSub(p2.viability, p1.viability)))

calculateIC50(wellResults, rowConcentrations, rowCount, units) ==
    IF positiveCount(rowConcentrations) < 2 THEN IC50Null
    ELSE
    LET byRow == viabilitiesByRow(wellResults, rowCount)
    IN  IF \E i \in 1..Len(rowConcentrations) :
              dataPointOf(rowConcentrations, byRow, i).kind = "throws"
        THEN IC50Throws
        ELSE
        LET points == dataPoints(wellResults, rowConcentrations, rowCount)
            i == firstCrossing(points, 1)
        IN  IF Len(points) < 2 THEN IC50Null
            ELSE IF i = 0 THEN IC50Null
            ELSE LET p1 == crossingPair(points, i)[1]
                     p2 == crossingPair(points, i)[2]
                 IN  IF RLess(RAbs(RSub(p2.viability, p1.viability)), Rat(1, 1000000))
                     THEN IC50Null
                     ELSE IC50Value(interpolate(p1, p2), units)

(***************************************************************************)
(* calculateIC50 in floating point.                                        *)
(***************************************************************************)
RECURSIVE Pow2(_)
Pow2(k) == IF k = 0 THEN 1 ELSE 2 * Pow2(k - 1)

\* The integer nearest to a >= 0, a half going to the even neighbour.
roundHalfEven(a) ==
    LET m == a.n \div a.d
        twice == 2 * (a.n % a.d)
    IN  IF twice > a.d \/ (twice = a.d /\ m % 2 = 1) THEN m + 1 ELSE m

\* a > 0 rounded to SignificandBits significant bits, ties to even.
RECURSIVE flAbs(_)
flAbs(a) ==
    IF RLess(a, RInt(Pow2(SignificandBits - 1)))
    THEN RDiv(flAbs(RMul(a, RInt(2))), RInt(2))
    ELSE IF RLeq(RInt(Pow2(SignificandBits)), a)
    THEN RMul(flAbs(RDiv(a, RInt(2))), RInt(2))
    ELSE RInt(roundHalfEven(a))

\* The floating-point number nearest to x: the result of one operation.
fl(x) == IF x.n = 0 THEN x ELSE IF x.n < 0 THEN RNeg(flAbs(RNeg(x))) ELSE flAbs(x)

\* viabilities.reduce((sum, v) => sum + v, 0), from the left.
RECURSIVE sumRounded(_, _)
sumRounded(sum, vs) ==
    IF vs = << >> THEN sum ELSE sumRounded(fl(RAdd(sum, Head(vs))), Tail(vs))

dataPointOfRounded(rowConcentrations, byRow, i) ==
    IF rowConcentrations[i] <= 0 THEN [kind |-> "null"]
    ELSE IF i \in DOMAIN byRow /\ Len(byRow[i]) = 0 THEN [kind |-> "null"]
    ELSE IF i \notin DOMAIN byRow THEN [kind |-> "throws"]
    ELSE [kind |-> "point",
          concentration |-> rowConcentrations[i],
          viability |-> fl(RDiv(sumRounded(RInt(0), byRow[i]), RInt(Len(byRow[i]))))]

\* conc1 + (50 - viability1) * (conc2 - conc1) / (viability2 - viability1),
\* each of the five operations rounded.
interpolateRounded(p1, p2) ==
    LET rise == fl(RSub(Fifty, p1.viability))
        run == fl(RInt(p2.concentration - p1.concentration))
        span == fl(RSub(p2.viability, p1.viability))
    IN  fl(RAdd(RInt(p1.concentration), fl(RDiv(fl(RMul(rise, run)), span))))

calculateIC50Rounded(wellResults, rowConcentrations, rowCount, units) ==
    IF positiveCount(rowConcentrations) < 2 THEN IC50Null
    ELSE
    LET byRow == viabilitiesByRow(wellResults, rowCount)
        mapped == [i \in 1..Len(rowConcentrations) |->
                      dataPointOfRounded(rowConcentrations, byRow, i)]
    IN  IF \E i \in 1..Len(rowConcentrations) : mapped[i].kind = "throws"
        THEN IC50Throws
        ELSE
        LET points == sortPoints(pointsOf(mapped))
            i == firstCrossing(points, 1)
        IN  IF Len(points) < 2 THEN IC50Null
            ELSE IF i = 0 THEN IC50Null
            ELSE LET p1 == crossingPair(points, i)[1]
                     p2 == crossingPair(points, i)[2]
                 IN  IF RLess(RAbs(fl(RSub(p2.viability, p1.viability))), Rat(1, 1000000))
                     THEN IC50Null
                     ELSE IC50Value(interpolateRounded(p1, p2), units)

(***************************************************************************)
(* Plate analyzer: processWellPlate as a state machine.                    *)
(***************************************************************************)
VARIABLES
    args,       \* the arguments of the processWellPlate call (image decoded)
    pc,         \* where the call is
    radius,     \* the sampling radius
    calib,      \* reference colours and calibration axis
    row, col,   \* the loop indices of the well loop
    results,    \* the WellResults pushed so far
    promise,    \* the promise processWellPlate returned
    samples,    \* every getPixelData call so far, in order
    doseIn,     \* arguments of a calculateIC50 call on its own
    doseOut,    \* what that call returned
    colourIn,   \* the pixels of a colour estimator or converter call on its own
    colourOut,  \* what that call returned
    wiz,        \* the state of the PlateAnalyzer component
    drag,       \* the closure variables of its drag effect
    load,       \* the image PlateAnalyzer is loading for a rotation or a crop
    calls,      \* the last onAnalysisComplete call PlateAnalyzer made
    app         \* the state of the App component

vars == << args, pc, radius, calib, row, col, results, promise, samples,
           doseIn, doseOut, colourIn, colourOut,
          wiz, drag, load, calls, app >>

pipeVars == << args, pc, radius, calib, row, col, results, promise, samples >>

ownVars == << doseIn, doseOut, colourIn, colourOut >>

uiVars == << wiz, drag, load, calls, app >>

WELL_RADIUS_FACTOR == Rat(3, 10)

Units == "nM"

\* Math.hypot(p.x, p.y) squared; NaN if a component is.
hypotSq(p) == IF p.x.nan \/ p.y.nan THEN NaN ELSE Num(p.x.v * p.x.v + p.y.v * p.y.v)

\* Math.min(u_mag, v_mag) * WELL_RADIUS_FACTOR
wellRadius(gridConfig) ==
    LET uu == hypotSq(gridConfig.u)
        vv == hypotSq(gridConfig.v)
    IN  IF uu.nan \/ vv.nan THEN RadiusNaN
        ELSE Radius(RMul(RMul(WELL_RADIUS_FACTOR, WELL_RADIUS_FACTOR),
                         RInt(Min2(uu.v, vv.v))))

\* Mutant: only the zero radius is refused.
invalidRadiusZeroOnly(r) == ~r.nan /\ r.sq.n = 0

\* radius === 0 || !isFinite(radius)
invalidRadius(r) == r.nan \/ r.sq.n = 0

NoCalib == [minRefRgb |-> [r |-> 0, g |-> 0, b |-> 0],
            maxRefRgb |-> [r |-> 0, g |-> 0, b |-> 0],
            labMin |-> [l |-> 0, a |-> 0, b |-> 0],
            gradientVector |-> [l |-> 0, a |-> 0, b |-> 0],
            gradientMagSq |-> 0]

\* The calibration projection is carried out on Lab channels rounded to
\* tenths of a unit, which keeps the dot product and the quotient exact
\* rationals within TLC's integers.
labTenths(lab) ==
    [l |-> RoundDiv(lab.l * 10, LabUnit),
     a |-> RoundDiv(lab.a * 10, LabUnit),
     b |-> RoundDiv(lab.b * 10, LabUnit)]

calibration(minColorPixels, maxColorPixels) ==
    LET minRefRgb == getRobustAverageColor(minColorPixels)
        maxRefRgb == getRobustAverageColor(maxColorPixels)
        labMin == labTenths(rgbToLab(minRefRgb))
        labMax == labTenths(rgbToLab(maxRefRgb))
        gradientVector == [l |-> labMax.l - labMin.l,
                           a |-> labMax.a - labMin.a,
                           b |-> labMax.b - labMin.b]
    IN  [minRefRgb |-> minRefRgb, maxRefRgb |-> maxRefRgb, labMin |-> labMin,
         gradientVector |-> gradientVector,
         gradientMagSq |-> gradientVector.l * gradientVector.l
                           + gradientVector.a * gradientVector.a
                           + gradientVector.b * gradientVector.b]

\* gradientMagSq > 1e-6, gradientMagSq being in squared tenths.
axisUsable(c) == RLess(Rat(1, 1000000), Rat(c.gradientMagSq, 100))

\* Mutant: no clamp.
clampNone(v) == v

\* Math.max(0, Math.min(1, v))
clamp01(v) ==
    IF RLess(v, RInt(0)) THEN RInt(0) ELSE IF RLess(RInt(1), v) THEN RInt(1) ELSE v

\* Mutant: a well is projected whether or not it has pixels.
wellReadingIgnoringCount(c, avgColor, nPixels) ==
    IF axisUsable(c)
    THEN LET labWell == labTenths(rgbToLab(avgColor))
             dotProduct == (labWell.l - c.labMin.l) * c.gradientVector.l
                           + (labWell.a - c.labMin.a) * c.gradientVector.a
                           + (labWell.b - c.labMin.b) * c.gradientVector.b
             intensity == clamp01(Rat(dotProduct, c.gradientMagSq))
         IN  [intensity |-> intensity, viability |-> RMul(intensity, RInt(100))]
    ELSE [intensity |-> RInt(0), viability |-> RInt(0)]

\* Mutant: the well vector is measured from the high reference.
wellReadingFromMax(c, avgColor, nPixels) ==
    IF nPixels > 0 /\ axisUsable(c)
    THEN LET labWell == labTenths(rgbToLab(avgColor))
             dotProduct == (labWell.l - c.labMin.l - c.gradientVector.l) * c.gradientVector.l
                           + (labWell.a - c.labMin.a - c.gradientVector.a) * c.gradientVector.a
                           + (labWell.b - c.labMin.b - c.gradientVector.b) * c.gradientVector.b
             intensity == clamp01(Rat(dotProduct, c.gradientMagSq))
         IN  [intensity |-> intensity, viability |-> RMul(intensity, RInt(100))]
    ELSE [intensity |-> RInt(0), viability |-> RInt(0)]

\* intensity and viability of a well of colour avgColor sampled from nPixels
\* pixels: both stay 0 unless there are pixels and the axis is usable.
wellReading(c, avgColor, nPixels) ==
    IF nPixels > 0 /\ axisUsable(c)
    THEN LET labWell == labTenths(rgbToLab(avgColor))
             dotProduct == (labWell.l - c.labMin.l) * c.gradientVector.l
                           + (labWell.a - c.labMin.a) * c.gradientVector.a
                           + (labWell.b - c.labMin.b) * c.gradientVector.b
             intensity == clamp01(Rat(dotProduct, c.gradientMagSq))
         IN  [intensity |-> intensity, viability |-> RMul(intensity, RInt(100))]
    ELSE [intensity |-> RInt(0), viability |-> RInt(0)]

\* Mutant: the column index steps along v and the row index along u.
wellCenterSwapped(gridConfig, r, c) ==
    Pt(NAdd(NAdd(gridConfig.origin.x, NScale(r, gridConfig.u.x)), NScale(c, gridConfig.v.x)),
       NAdd(NAdd(gridConfig.origin.y, NScale(r, gridConfig.u.y)), NScale(c, gridConfig.v.y)))

wellCenter(gridConfig, r, c) ==
    Pt(NAdd(NAdd(gridConfig.origin.x, NScale(c, gridConfig.u.x)), NScale(r, gridConfig.v.x)),
       NAdd(NAdd(gridConfig.origin.y, NScale(c, gridConfig.u.y)), NScale(r, gridConfig.v.y)))

\* Mutant: row and col exchanged in the WellResult.
wellResultSwapped(c, gridConfig, r, k, sample) ==
    LET avgColor == getRobustAverageColor(sample.pixels)
        reading == wellReading(c, avgColor, Len(sample.pixels))
    IN  [id |-> << (65 + r) % 65536, k + 1 >>,
         row |-> k,
         col |-> r,
         center |-> wellCenter(gridConfig, r, k),
         avgColor |-> avgColor,
         intensity |-> reading.intensity,
         viability |-> reading.viability]

\* The WellResult of one iteration of the loop body, from its sample.
wellResult(c, gridConfig, r, k, sample) ==
    LET avgColor == getRobustAverageColor(sample.pixels)
        reading == wellReading(c, avgColor, Len(sample.pixels))
    IN  [id |-> << (65 + r) % 65536, k + 1 >>,
         row |-> r,
         col |-> k,
         center |-> wellCenter(gridConfig, r, k),
         avgColor |-> avgColor,
         intensity |-> reading.intensity,
         viability |-> reading.viability]

Pending == [state |-> "pending", error |-> "", wellResults |-> << >>, ic50 |-> IC50Null]

Rejected(msg) == [state |-> "rejected", error |-> msg, wellResults |-> << >>, ic50 |-> IC50Null]

Resolved(wellResults, ic50) ==
    [state |-> "resolved", error |-> "", wellResults |-> wellResults, ic50 |-> ic50]

sampleRecord(center, sample) ==
    [center |-> center, pixels |-> sample.pixels, at |-> sample.at, used |-> sample.used]

(***************************************************************************)
(* Inputs.                                                                 *)
(***************************************************************************)
P(x, y) == Pt(Num(x), Num(y))

Origins == {P(1, 1), P(1, 2), Pt(NaN, Num(1))}

\* Wells two pixels apart along each axis, from each origin; a grid whose
\* column step is zero; a grid whose row step is not a number.
GridConfigs ==
    [origin : Origins, u : {P(2, 0)}, v : {P(0, 2)}]
    \cup {[origin |-> P(1, 1), u |-> P(0, 0), v |-> P(0, 2)],
          [origin |-> P(1, 1), u |-> P(2, 0), v |-> Pt(Num(0), NaN)]}

\* Inside the top band, inside the bottom band, off the image, not a number.
NegativePoints == {P(1, 1), P(-9, -9)}

PositivePoints == {P(1, 3), P(-9, -9), Pt(NaN, Num(3))}

ConcentrationLists == {<< >>, << 0, 1 >>, << 1, 2 >>, << 2, 1 >>, << 1, 2, 4 >>}

Args == [image : Images, gridConfig : GridConfigs,
         rowCount : 1..MaxRows, colCount : 1..MaxCols,
         controlNegativePoint : NegativePoints,
         controlPositivePoint : PositivePoints,
         rowConcentrations : ConcentrationLists]

\* A row of wells of a calculateIC50 call: the viabilities of its wells.
RowViabilities == {<< >>, << 20 >>, << 50 >>, << 80 >>, << 25, 90 >>}

DoseLevels == {0, 1, 10, 100}

SeqsUpTo(S, n) == UNION {[1..k -> S] : k \in 0..n}

\* The wells of the rows given by their viabilities, row-major.
RECURSIVE wellsOfRows(_, _)
wellsOfRows(rows, r) ==
    IF r > Len(rows) THEN << >>
    ELSE [k \in 1..Len(rows[r]) |->
             [row |-> r - 1, col |-> k - 1, viability |-> RInt(rows[r][k])]]
         \o wellsOfRows(rows, r + 1)

\* The dose series of section 8 of the specification: (1,90), (10,60),
\* (100,40), (1000,10), one well a row.
ExampleDose == [wellResults |-> wellsOfRows(<< << 90 >>, << 60 >>, << 40 >>, << 10 >> >>, 1),
                rowConcentrations |-> << 1, 10, 100, 1000 >>,
                rowCount |-> 4]

DoseInputs ==
    {[wellResults |-> wellsOfRows(rows, 1), rowConcentrations |-> concs,
      rowCount |-> Max2(0, Len(rows) - drop)] :
        rows \in SeqsUpTo(RowViabilities, MaxDoseRows),
        concs \in SeqsUpTo(DoseLevels, MaxDoseRows),
        drop \in 0..1}
    \cup {ExampleDose}

\* The grid of section 8 of the specification, origin (0,0), u = (10,0),
\* v = (0,10), with enough rows and columns for the well of row 2, col 3.
ExampleGridArgs ==
    [image |-> [top |-> 1, bottom |-> 3],
     gridConfig |-> [origin |-> P(0, 0), u |-> P(10, 0), v |-> P(0, 10)],
     rowCount |-> 3, colCount |-> 4,
     controlNegativePoint |-> P(1, 1), controlPositivePoint |-> P(1, 3),
     rowConcentrations |-> << >>]

\* One well on a grid nine pixels apart: the radius is 0.30 * 9 = 2.7.
FractionalRadiusArgs ==
    [image |-> [top |-> 1, bottom |-> 3],
     gridConfig |-> [origin |-> P(1, 1), u |-> P(9, 0), v |-> P(0, 9)],
     rowCount |-> 1, colCount |-> 1,
     controlNegativePoint |-> P(1, 1), controlPositivePoint |-> P(1, 3),
     rowConcentrations |-> << >>]

\* A plate one well wide with more rows than the alphabet has letters.
ManyRowsArgs ==
    [image |-> [top |-> 1, bottom |-> 3],
     gridConfig |-> [origin |-> P(1, 1), u |-> P(2, 0), v |-> P(0, 2)],
     rowCount |-> 27, colCount |-> 1,
     controlNegativePoint |-> P(1, 1), controlPositivePoint |-> P(1, 3),
     rowConcentrations |-> << >>]

\* No processWellPlate call is under way.
NoArgs == [image |-> [top |-> 1, bottom |-> 1],
           gridConfig |-> [origin |-> P(1, 1), u |-> P(2, 0), v |-> P(0, 2)],
           rowCount |-> 1, colCount |-> 1,
           controlNegativePoint |-> P(1, 1), controlPositivePoint |-> P(1, 3),
           rowConcentrations |-> << >>]

NotCalled == [kind |-> "none", value |-> RInt(0), units |-> ""]

\* Pixels of a pink well, close to one another.
ClusterColours == {[r |-> 240, g |-> 90, b |-> 160],
                   [r |-> 241, g |-> 90, b |-> 160],
                   [r |-> 240, g |-> 92, b |-> 161],
                   [r |-> 238, g |-> 91, b |-> 159]}

\* Glare and shadow.
OutlierColours == {[r |-> 255, g |-> 255, b |-> 255], [r |-> 0, g |-> 0, b |-> 0]}

\* Channel values at the ends of the range, on both sides of the sRGB knee
\* (10 and 11) and in between.
ChannelLevels == {0, 1, 2, 10, 11, 12, 64, 100, 128, 200, 253, 254, 255}

\* Pixel lists of a direct call: up to MaxPixels well or outlier pixels, or
\* one pixel of any colour of the channel levels.
ColourInputs ==
    SeqsUpTo(ClusterColours \cup OutlierColours, MaxPixels)
    \cup {<< [r |-> r, g |-> g, b |-> b] >> :
              r \in ChannelLevels, g \in ChannelLevels, b \in ChannelLevels}

\* No estimator or converter call has been made.
NoColour == [kind |-> "none", rgb |-> [r |-> 0, g |-> 0, b |-> 0],
             median |-> [l |-> 0, a |-> 0, b |-> 0]]

(***************************************************************************)
(* The calibration wizard (PlateAnalyzer): its values and its functions.   *)
(***************************************************************************)
\* null, undefined, '' and a component that is not mounted.
Null == [null |-> TRUE]

RMin(a, b) == IF RLeq(a, b) THEN a ELSE b

RMax(a, b) == IF RLeq(a, b) THEN b ELSE a

\* The text of an <input type="number"> is a sequence of characters.
DigitChars == << "0", "1", "2", "3", "4", "5", "6", "7", "8", "9" >>

isDigit(c) == \E k \in 1..Len(DigitChars) : DigitChars[k] = c

digitValue(c) == (CHOOSE k \in 1..Len(DigitChars) : DigitChars[k] = c) - 1

RECURSIVE leadingDigits(_)
leadingDigits(t) ==
    IF t = << >> THEN << >>
    ELSE IF isDigit(Head(t)) THEN << Head(t) >> \o leadingDigits(Tail(t))
    ELSE << >>

RECURSIVE digitsValue(_)
digitsValue(ds) ==
    IF ds = << >> THEN 0
    ELSE 10 * digitsValue(SubSeq(ds, 1, Len(ds) - 1)) + digitValue(ds[Len(ds)])

RECURSIVE Pow10(_)
Pow10(k) == IF k = 0 THEN 1 ELSE 10 * Pow10(k - 1)

unsigned(t) == IF t # << >> /\ Head(t) \in {"-", "+"} THEN Tail(t) ELSE t

signOf(t) == IF t # << >> /\ Head(t) = "-" THEN -1 ELSE 1

\* parseInt(text): a sign, then the longest run of digits; NaN without one.
parseInt(t) ==
    LET ds == leadingDigits(unsigned(t))
    IN  IF ds = << >> THEN NaN ELSE Num(signOf(t) * digitsValue(ds))

\* parseFloat(text): a sign, digits, and a fraction after a point; NaN when
\* there is no digit.  The value is exact.
parseFloat(t) ==
    LET body == unsigned(t)
        whole == leadingDigits(body)
        rest == SubSeq(body, Len(whole) + 1, Len(body))
        fraction == IF rest # << >> /\ Head(rest) = "." THEN leadingDigits(Tail(rest))
                    ELSE << >>
    IN  IF whole = << >> /\ fraction = << >> THEN [nan |-> TRUE, v |-> RInt(0)]
        ELSE [nan |-> FALSE,
              v |-> Rat(signOf(t) * (digitsValue(whole) * Pow10(Len(fraction))
                                     + digitsValue(fraction)),
                        Pow10(Len(fraction)))]

\* naturalWidth / offsetWidth of the <img>: the layout shows an image at half
\* its natural size.
Zoom == 2

\* URL.createObjectURL(imageFile) of PlateAnalyzer, and of App.
originalImageUrl == [kind |-> "blob", of |-> "PlateAnalyzer"]

appImageUrl == [kind |-> "blob", of |-> "App"]

\* canvas.toDataURL() of the image file turned by angle degrees.
rotatedUrl(angle) == [kind |-> "rotated", angle |-> angle]

\* canvas.toDataURL() of the part (sx, sy, sWidth, sHeight) of sourceUrl.
croppedUrl(sourceUrl, sx, sy, sWidth, sHeight) ==
    [kind |-> "cropped", source |-> sourceUrl, sx |-> sx, sy |-> sy,
     sWidth |-> sWidth, sHeight |-> sHeight]

\* The initial state of PlateAnalyzer, its mount effects run: the object URL
\* made and rowConcentrations filled with rowCount blanks.
InitialWizard ==
    [mounted |-> TRUE,
     rotatedImageUrl |-> Null, croppedImageUrl |-> Null, rotationAngle |-> 0,
     step |-> "selectTopLeft", isLoading |-> FALSE,
     topLeftPoint |-> Null, topRightPoint |-> Null, bottomLeftPoint |-> Null,
     rowCount |-> 8, colCount |-> 12,
     controlNegative |-> Null, controlPositive |-> Null,
     rowConcentrations |-> [i \in 1..8 |-> << >>], concentrationUnits |-> "nM",
     cropRect |-> Null]

Unmounted == [mounted |-> FALSE]

displayImageUrl(w) ==
    IF w.croppedImageUrl # Null THEN w.croppedImageUrl
    ELSE IF w.rotatedImageUrl # Null THEN w.rotatedImageUrl
    ELSE originalImageUrl

\* A canvas dimension set from a number: the number truncated.
canvasSize(r) == RInt(r.n \div r.d)

naturalSize(url) ==
    CASE url.kind = "blob" -> [width |-> RInt(ImgW), height |-> RInt(ImgH)]
      [] url.kind = "rotated" ->
            IF url.angle \in {90, 270} THEN [width |-> RInt(ImgH), height |-> RInt(ImgW)]
            ELSE [width |-> RInt(ImgW), height |-> RInt(ImgH)]
      [] url.kind = "cropped" ->
            [width |-> canvasSize(url.sWidth), height |-> canvasSize(url.sHeight)]

\* imageRef.current: the <img> showing displayImageUrl.
imageRef(w) ==
    LET natural == naturalSize(displayImageUrl(w))
    IN  [naturalWidth |-> natural.width, naturalHeight |-> natural.height,
         offsetWidth |-> RDiv(natural.width, RInt(Zoom)),
         offsetHeight |-> RDiv(natural.height, RInt(Zoom))]

\* The x and y of a point, without the record of the image it was tapped on.
xy(p) == [x |-> p.x, y |-> p.y]

getAbsoluteCoords(w, relativePoint) ==
    LET img == imageRef(w)
    IN  IF img.offsetWidth.n = 0 \/ img.offsetHeight.n = 0 THEN relativePoint
        ELSE [x |-> RMul(relativePoint.x, RDiv(img.naturalWidth, img.offsetWidth)),
              y |-> RMul(relativePoint.y, RDiv(img.naturalHeight, img.offsetHeight))]

\* Mutant: the step is left as it is.
handleFullResetKeepingStep(w) ==
    [w EXCEPT !.topLeftPoint = Null, !.topRightPoint = Null, !.bottomLeftPoint = Null,
              !.controlNegative = Null, !.controlPositive = Null,
              !.croppedImageUrl = Null, !.cropRect = Null]

handleFullReset(w) ==
    [w EXCEPT !.topLeftPoint = Null, !.topRightPoint = Null, !.bottomLeftPoint = Null,
              !.controlNegative = Null, !.controlPositive = Null,
              !.croppedImageUrl = Null, !.cropRect = Null,
              !.step = "selectTopLeft"]

handleTap(w, coords) ==
    CASE w.step = "selectTopLeft" ->
            [w EXCEPT !.topLeftPoint = coords, !.step = "selectTopRight"]
      [] w.step = "selectTopRight" ->
            [w EXCEPT !.topRightPoint = coords, !.step = "selectBottomLeft"]
      [] w.step = "selectBottomLeft" ->
            [w EXCEPT !.bottomLeftPoint = coords, !.step = "confirmGrid"]
      [] w.step = "controlPositive" ->
            [w EXCEPT !.controlPositive = coords, !.step = "controlNegative"]
      [] w.step = "controlNegative" ->
            [w EXCEPT !.controlNegative = coords, !.step = "concentrations"]
      [] OTHER -> w

\* The gridConfig memo.
gridConfig(w) ==
    IF w.colCount <= 1 \/ w.rowCount <= 1 THEN Null
    ELSE IF w.topLeftPoint = Null \/ w.topRightPoint = Null \/ w.bottomLeftPoint = Null
    THEN Null
    ELSE [origin |-> xy(w.topLeftPoint),
          u |-> [x |-> RDiv(RSub(w.topRightPoint.x, w.topLeftPoint.x), RInt(w.colCount - 1)),
                 y |-> RDiv(RSub(w.topRightPoint.y, w.topLeftPoint.y), RInt(w.colCount - 1))],
          v |-> [x |-> RDiv(RSub(w.bottomLeftPoint.x, w.topLeftPoint.x), RInt(w.rowCount - 1)),
                 y |-> RDiv(RSub(w.bottomLeftPoint.y, w.topLeftPoint.y), RInt(w.rowCount - 1))]]

\* A vector of the grid in image pixels, each component scaled on its own.
absoluteVector(w, vec) ==
    LET zero == getAbsoluteCoords(w, [x |-> RInt(0), y |-> RInt(0)])
    IN  [x |-> RSub(getAbsoluteCoords(w, [x |-> vec.x, y |-> RInt(0)]).x, zero.x),
         y |-> RSub(getAbsoluteCoords(w, [x |-> RInt(0), y |-> vec.y]).y, zero.y)]

\* parseFloat(c) || 0
numericConcentration(c) ==
    IF parseFloat(c).nan \/ parseFloat(c).v.n = 0 THEN [nan |-> FALSE, v |-> RInt(0)]
    ELSE parseFloat(c)

\* rowConcentrations.map(parseFloat).filter(c => !isNaN(c) && c > 0).length
parsedConcentrationCount(w) ==
    Cardinality({i \in 1..Len(w.rowConcentrations) :
                    /\ ~parseFloat(w.rowConcentrations[i]).nan
                    /\ parseFloat(w.rowConcentrations[i]).v.n > 0})

\* Mutant: the reference points passed in each other's place.
handleAnalyzeSwapped(w) ==
    IF gridConfig(w) = Null \/ w.controlNegative = Null \/ w.controlPositive = Null
    THEN Null
    ELSE IF parsedConcentrationCount(w) < 2 THEN Null
    ELSE [gridConfig |-> [origin |-> getAbsoluteCoords(w, gridConfig(w).origin),
                          u |-> absoluteVector(w, gridConfig(w).u),
                          v |-> absoluteVector(w, gridConfig(w).v)],
          rowCount |-> w.rowCount,
          colCount |-> w.colCount,
          controlNegative |-> getAbsoluteCoords(w, xy(w.controlPositive)),
          controlPositive |-> getAbsoluteCoords(w, xy(w.controlNegative)),
          rowConcentrations |-> [i \in 1..Len(w.rowConcentrations) |->
                                    numericConcentration(w.rowConcentrations[i])],
          concentrationUnits |-> w.concentrationUnits,
          imageDataUrl |-> displayImageUrl(w)]

\* Mutant: one valid concentration is enough.
handleAnalyzeNeedingOne(w) ==
    IF gridConfig(w) = Null \/ w.controlNegative = Null \/ w.controlPositive = Null
    THEN Null
    ELSE IF parsedConcentrationCount(w) < 1 THEN Null
    ELSE [gridConfig |-> [origin |-> getAbsoluteCoords(w, gridConfig(w).origin),
                          u |-> absoluteVector(w, gridConfig(w).u),
                          v |-> absoluteVector(w, gridConfig(w).v)],
          rowCount |-> w.rowCount,
          colCount |-> w.colCount,
          controlNegative |-> getAbsoluteCoords(w, xy(w.controlNegative)),
          controlPositive |-> getAbsoluteCoords(w, xy(w.controlPositive)),
          rowConcentrations |-> [i \in 1..Len(w.rowConcentrations) |->
                                    numericConcentration(w.rowConcentrations[i])],
          concentrationUnits |-> w.concentrationUnits,
          imageDataUrl |-> displayImageUrl(w)]

\* The arguments handleAnalyze passes to onAnalysisComplete, or Null when it
\* makes no call.
handleAnalyze(w) ==
    IF gridConfig(w) = Null \/ w.controlNegative = Null \/ w.controlPositive = Null
    THEN Null
    ELSE IF parsedConcentrationCount(w) < 2 THEN Null
    ELSE [gridConfig |-> [origin |-> getAbsoluteCoords(w, gridConfig(w).origin),
                          u |-> absoluteVector(w, gridConfig(w).u),
                          v |-> absoluteVector(w, gridConfig(w).v)],
          rowCount |-> w.rowCount,
          colCount |-> w.colCount,
          controlNegative |-> getAbsoluteCoords(w, xy(w.controlNegative)),
          controlPositive |-> getAbsoluteCoords(w, xy(w.controlPositive)),
          rowConcentrations |-> [i \in 1..Len(w.rowConcentrations) |->
                                    numericConcentration(w.rowConcentrations[i])],
          concentrationUnits |-> w.concentrationUnits,
          imageDataUrl |-> displayImageUrl(w)]

\* The state of setRowCount(rowCount) and of the effect that follows a change
\* of rowCount: Array(rowCount).fill(''), which throws a RangeError for a
\* negative length and takes the component tree down.
setRowCount(w, rowCount) ==
    IF rowCount = w.rowCount THEN w
    ELSE IF rowCount < 0 THEN Unmounted
    ELSE [w EXCEPT !.rowCount = rowCount,
                   !.rowConcentrations = [i \in 1..rowCount |-> << >>]]

\* The closure variables of the drag effect.
DragIdle == [interactionStartRef |-> Null, cropInteractionRef |-> Null,
             initialCropRectRef |-> Null, listening |-> FALSE]

\* The drag effect depends on step: a render with another step removes the
\* window listeners and makes a new closure.
rendered(w, next, d) ==
    IF next.mounted /\ next.step = w.step THEN d ELSE DragIdle

distSq(p, q) ==
    RAdd(RMul(RSub(p.x, q.x), RSub(p.x, q.x)), RMul(RSub(p.y, q.y), RSub(p.y, q.y)))

ResizeHandles == {"top-left", "top-right", "bottom-left", "bottom-right",
                  "top", "bottom", "left", "right"}

\* handle.includes(part)
includes(handle, part) ==
    CASE part = "top" -> handle \in {"top-left", "top-right", "top"}
      [] part = "bottom" -> handle \in {"bottom-left", "bottom-right", "bottom"}
      [] part = "left" -> handle \in {"top-left", "bottom-left", "left"}
      [] part = "right" -> handle \in {"top-right", "bottom-right", "right"}

\* The switch of handleInteractionMove: the rectangle of the interaction at
\* coords, or Null.
draggedRect(interaction, initialRect, coords) ==
    LET dx == RSub(coords.x, interaction.startX)
        dy == RSub(coords.y, interaction.startY)
    IN  CASE interaction.type = "draw" ->
                [x |-> RMin(interaction.startX, coords.x),
                 y |-> RMin(interaction.startY, coords.y),
                 width |-> RAbs(dx), height |-> RAbs(dy)]
          [] interaction.type = "move" ->
                IF initialRect = Null THEN Null
                ELSE [initialRect EXCEPT !.x = RAdd(@, dx), !.y = RAdd(@, dy)]
          [] interaction.type = "resize" ->
                IF initialRect = Null THEN Null
                ELSE LET h == interaction.handle
                         r1 == IF includes(h, "right")
                               THEN [initialRect EXCEPT !.width = RAdd(@, dx)]
                               ELSE initialRect
                         r2 == IF includes(h, "left")
                               THEN [r1 EXCEPT !.x = RAdd(@, dx), !.width = RSub(@, dx)]
                               ELSE r1
                         r3 == IF includes(h, "bottom")
                               THEN [r2 EXCEPT !.height = RAdd(@, dy)]
                               ELSE r2
                     IN  IF includes(h, "top")
                         THEN [r3 EXCEPT !.y = RAdd(@, dy), !.height = RSub(@, dy)]
                         ELSE r3

\* Lines 281-287: a negative extent is turned round, then the rectangle is
\* held inside the image.
clampRect(newRect, img) ==
    LET r1 == IF newRect.width.n < 0
              THEN [newRect EXCEPT !.x = RAdd(@, newRect.width), !.width = RAbs(@)]
              ELSE newRect
        r2 == IF r1.height.n < 0
              THEN [r1 EXCEPT !.y = RAdd(@, r1.height), !.height = RAbs(@)]
              ELSE r1
        x == RMax(RInt(0), RMin(r2.x, RSub(img.offsetWidth, r2.width)))
        y == RMax(RInt(0), RMin(r2.y, RSub(img.offsetHeight, r2.height)))
    IN  [x |-> x, y |-> y,
         width |-> RMin(r2.width, RSub(img.offsetWidth, x)),
         height |-> RMin(r2.height, RSub(img.offsetHeight, y))]

\* No component is mounted.
InitNoInterface ==
    /\ wiz = Unmounted
    /\ drag = DragIdle
    /\ load = Null
    /\ calls = Null
    /\ app = Null

(***************************************************************************)
(* processWellPlate.                                                       *)
(***************************************************************************)
Init ==
    /\ args \in Args \cup {ExampleGridArgs, FractionalRadiusArgs, ManyRowsArgs}
    /\ pc = "loading"
    /\ radius = RadiusNaN
    /\ calib = NoCalib
    /\ row = 0
    /\ col = 0
    /\ results = << >>
    /\ promise = Pending
    /\ samples = << >>
    /\ doseIn = ExampleDose
    /\ doseOut = NotCalled
    /\ colourIn = << >>
    /\ colourOut = NoColour
    /\ InitNoInterface

\* image.onerror
OnError ==
    /\ pc = "loading"
    /\ pc' = "done"
    /\ promise' = Rejected("image error")
    /\ UNCHANGED << args, radius, calib, row, col, results, samples, doseIn, doseOut,
                   colourIn, colourOut >>
    /\ UNCHANGED uiVars

\* image.onload when canvas.getContext returns null.
OnLoadNoContext ==
    /\ pc = "loading"
    /\ pc' = "done"
    /\ promise' = Rejected("Could not get canvas context")
    /\ UNCHANGED << args, radius, calib, row, col, results, samples, doseIn, doseOut,
                   colourIn, colourOut >>
    /\ UNCHANGED uiVars

\* image.onload up to the radius check.
OnLoad ==
    /\ pc = "loading"
    /\ radius' = wellRadius(args.gridConfig)
    /\ IF invalidRadius(radius')
       THEN /\ pc' = "done"
            /\ promise' = Rejected("Could not determine a valid well radius")
       ELSE /\ pc' = "references"
            /\ UNCHANGED promise
    /\ UNCHANGED << args, calib, row, col, results, samples, doseIn, doseOut,
                   colourIn, colourOut >>
    /\ UNCHANGED uiVars

\* Sampling the two reference points and building the calibration axis.
SampleReferences ==
    /\ pc = "references"
    /\ LET neg == args.controlNegativePoint
           pos == args.controlPositivePoint
           minColor == getPixelData(args.image, neg.x, neg.y, radius)
           maxColor == getPixelData(args.image, pos.x, pos.y, radius)
       IN  /\ samples' = samples \o << sampleRecord(neg, minColor), sampleRecord(pos, maxColor) >>
           /\ IF Len(minColor.pixels) = 0 \/ Len(maxColor.pixels) = 0
              THEN /\ pc' = "done"
                   /\ promise' = Rejected("Could not sample reference colors")
                   /\ UNCHANGED calib
              ELSE /\ pc' = "wells"
                   /\ calib' = calibration(minColor.pixels, maxColor.pixels)
                   /\ UNCHANGED promise
    /\ row' = 0
    /\ col' = 0
    /\ UNCHANGED << args, radius, results, doseIn, doseOut, colourIn, colourOut >>
    /\ UNCHANGED uiVars

\* One iteration of the body of the well loop, and the loop's step.
ProcessWell ==
    /\ pc = "wells"
    /\ row < args.rowCount
    /\ LET center == wellCenter(args.gridConfig, row, col)
           sample == getPixelData(args.image, center.x, center.y, radius)
       IN  /\ samples' = Append(samples, sampleRecord(center, sample))
           /\ results' = Append(results, wellResult(calib, args.gridConfig, row, col, sample))
    /\ IF col + 1 < args.colCount
       THEN col' = col + 1 /\ row' = row
       ELSE col' = 0 /\ row' = row + 1
    /\ UNCHANGED << args, pc, radius, calib, promise, doseIn, doseOut, colourIn, colourOut >>
    /\ UNCHANGED uiVars

\* After the loop: calculateIC50 and resolve.  An exception thrown in the
\* onload callback is uncaught and leaves the promise pending.
Finish ==
    /\ pc = "wells"
    /\ row >= args.rowCount
    /\ LET ic50 == calculateIC50(results, args.rowConcentrations, args.rowCount, Units)
       IN  IF ic50.kind = "throws"
           THEN pc' = "thrown" /\ UNCHANGED promise
           ELSE pc' = "done" /\ promise' = Resolved(results, ic50)
    /\ UNCHANGED << args, radius, calib, row, col, results, samples, doseIn, doseOut,
                   colourIn, colourOut >>
    /\ UNCHANGED uiVars

Next == OnError \/ OnLoadNoContext \/ OnLoad \/ SampleReferences \/ ProcessWell \/ Finish

Spec == Init /\ [][Next]_vars

(***************************************************************************)
(* calculateIC50 on its own inputs.                                        *)
(***************************************************************************)
InitDose ==
    /\ args = NoArgs
    /\ pc = "idle"
    /\ radius = RadiusNaN
    /\ calib = NoCalib
    /\ row = 0
    /\ col = 0
    /\ results = << >>
    /\ promise = Pending
    /\ samples = << >>
    /\ doseIn \in DoseInputs
    /\ doseOut = NotCalled
    /\ colourIn = << >>
    /\ colourOut = NoColour
    /\ InitNoInterface

CallIC50 ==
    /\ doseOut = NotCalled
    /\ doseOut' = calculateIC50(doseIn.wellResults, doseIn.rowConcentrations,
                                doseIn.rowCount, Units)
    /\ UNCHANGED << args, pc, radius, calib, row, col, results, promise, samples, doseIn,
                   colourIn, colourOut >>
    /\ UNCHANGED uiVars

NextDose == CallIC50

SpecDose == InitDose /\ [][NextDose]_vars

(***************************************************************************)
(* calculateIC50 in floating point on its own inputs.                      *)
(***************************************************************************)
\* Concentrations that are floating-point numbers, one of them of a
\* magnitude at which the integers are no longer all representable.
FloatDoseLevels == {1, 3, 10, 30, 100, Pow2(SignificandBits + 1)}

FloatViabilities == {fl(RInt(10)), fl(Rat(45, 2)), fl(RInt(33)), fl(RInt(50)),
                     fl(RInt(60)), fl(RInt(80))}

\* Two rows of one well, or of one well and two wells.
FloatInputs ==
    {[wellResults |-> << [row |-> 0, col |-> 0, viability |-> v1],
                         [row |-> 1, col |-> 0, viability |-> v2] >> \o extra,
      rowConcentrations |-> << c1, c2 >>,
      rowCount |-> 2] :
        v1 \in FloatViabilities, v2 \in FloatViabilities,
        c1 \in FloatDoseLevels, c2 \in FloatDoseLevels,
        extra \in {<< >>, << [row |-> 1, col |-> 1, viability |-> fl(RInt(33))] >>}}

InitFloat ==
    /\ args = NoArgs
    /\ pc = "idle"
    /\ radius = RadiusNaN
    /\ calib = NoCalib
    /\ row = 0
    /\ col = 0
    /\ results = << >>
    /\ promise = Pending
    /\ samples = << >>
    /\ doseIn \in FloatInputs
    /\ doseOut = NotCalled
    /\ colourIn = << >>
    /\ colourOut = NoColour
    /\ InitNoInterface

CallIC50Rounded ==
    /\ doseOut = NotCalled
    /\ doseOut' = calculateIC50Rounded(doseIn.wellResults, doseIn.rowConcentrations,
                                       doseIn.rowCount, Units)
    /\ UNCHANGED << args, pc, radius, calib, row, col, results, promise, samples, doseIn,
                   colourIn, colourOut >>
    /\ UNCHANGED uiVars

NextFloat == CallIC50Rounded

SpecFloat == InitFloat /\ [][NextFloat]_vars

(***************************************************************************)
(* getRobustAverageColor and the colour converter on their own inputs.     *)
(***************************************************************************)
InitColour ==
    /\ args = NoArgs
    /\ pc = "idle"
    /\ radius = RadiusNaN
    /\ calib = NoCalib
    /\ row = 0
    /\ col = 0
    /\ results = << >>
    /\ promise = Pending
    /\ samples = << >>
    /\ doseIn = ExampleDose
    /\ doseOut = NotCalled
    /\ colourIn \in ColourInputs
    /\ colourOut = NoColour
    /\ InitNoInterface

\* getRobustAverageColor(colourIn), with the Lab median it went through.
CallEstimator ==
    /\ colourOut = NoColour
    /\ colourOut' = [kind |-> "estimate",
                     rgb |-> getRobustAverageColor(colourIn),
                     median |-> IF Len(colourIn) >= 2 THEN medianLab(colourIn)
                                ELSE NoColour.median]
    /\ UNCHANGED << args, pc, radius, calib, row, col, results, promise, samples,
                   doseIn, doseOut, colourIn >>
    /\ UNCHANGED uiVars

\* labToRgb(rgbToLab(colourIn[0])).
CallConverter ==
    /\ colourOut = NoColour
    /\ Len(colourIn) = 1
    /\ colourOut' = [kind |-> "roundtrip",
                     rgb |-> labToRgb(rgbToLab(colourIn[1])),
                     median |-> rgbToLab(colourIn[1])]
    /\ UNCHANGED << args, pc, radius, calib, row, col, results, promise, samples,
                   doseIn, doseOut, colourIn >>
    /\ UNCHANGED uiVars

NextColour == CallEstimator \/ CallConverter

SpecColour == InitColour /\ [][NextColour]_vars

(***************************************************************************)
(* PlateAnalyzer: its event handlers and the callbacks of its image loads. *)
(* The pointer events a specification offers are parameters: a pointer is  *)
(* the coordinates getRelativeCoords gives for the event, a target is the  *)
(* element the event started on.                                           *)
(***************************************************************************)
\* What a handler that only touches PlateAnalyzer leaves alone.
wizardOnly ==
    /\ UNCHANGED pipeVars
    /\ UNCHANGED ownVars
    /\ UNCHANGED << calls, app >>

\* handleInteractionStart: mousedown or touchstart on the overlay, on the
\* crop rectangle ("move") or on one of its resize handles.
InteractionStart(Pointers, Targets) ==
    /\ wiz.mounted
    /\ \E coords \in Pointers, target \in Targets :
         /\ target # "overlay" => (wiz.step = "cropping" /\ wiz.cropRect # Null)
         /\ LET kind == IF target \in ResizeHandles /\ wiz.cropRect # Null THEN "resize"
                         ELSE IF target # "overlay" /\ wiz.cropRect # Null THEN "move"
                         ELSE IF wiz.step = "cropping" THEN "draw"
                         ELSE "none"
            IN  /\ wiz' = IF kind = "draw"
                          THEN [wiz EXCEPT !.cropRect = [x |-> coords.x, y |-> coords.y,
                                                         width |-> RInt(0),
                                                         height |-> RInt(0)]]
                          ELSE wiz
                /\ drag' = [interactionStartRef |->
                                [x |-> coords.x, y |-> coords.y, on |-> displayImageUrl(wiz)],
                            cropInteractionRef |->
                                IF kind = "none" THEN drag.cropInteractionRef
                                ELSE [type |-> kind, handle |-> target,
                                      startX |-> coords.x, startY |-> coords.y],
                            initialCropRectRef |->
                                IF kind \in {"resize", "move"} THEN wiz.cropRect
                                ELSE drag.initialCropRectRef,
                            listening |-> TRUE]
    /\ UNCHANGED load
    /\ wizardOnly

\* handleInteractionMove: mousemove or touchmove on the window.
InteractionMove(Pointers) ==
    /\ wiz.mounted
    /\ drag.listening
    /\ \E coords \in Pointers :
         LET start == drag.interactionStartRef
             newRect == IF drag.cropInteractionRef = Null THEN Null
                        ELSE draggedRect(drag.cropInteractionRef, drag.initialCropRectRef,
                                         coords)
         IN  /\ drag' = [drag EXCEPT !.interactionStartRef =
                            IF start # Null /\ RLess(RInt(100), distSq(coords, start))
                            THEN Null ELSE start]
             /\ wiz' = IF newRect = Null THEN wiz
                       ELSE [wiz EXCEPT !.cropRect = clampRect(newRect, imageRef(wiz))]
    /\ UNCHANGED load
    /\ wizardOnly

\* The point of a tap with, for the properties only, the image it was made on
\* and the step it was made at.
tapped(start, step) == [x |-> start.x, y |-> start.y, on |-> start.on, at |-> step]

\* handleInteractionEnd: mouseup, touchend or touchcancel on the window; quick
\* says that less than 500 ms have passed since the start.
InteractionEnd(Pointers) ==
    /\ wiz.mounted
    /\ drag.listening
    /\ \E coords \in Pointers, quick \in BOOLEAN :
         LET start == drag.interactionStartRef
             tap == /\ start # Null
                    /\ quick
                    /\ RLess(distSq(coords, start), RInt(100))
                    /\ wiz.step # "cropping"
             ended == [interactionStartRef |-> Null,
                       cropInteractionRef |-> Null,
                       initialCropRectRef |->
                           IF /\ drag.cropInteractionRef # Null
                              /\ drag.cropInteractionRef.type = "draw"
                              /\ wiz.cropRect # Null
                           THEN wiz.cropRect ELSE drag.initialCropRectRef,
                       listening |-> FALSE]
         IN  /\ wiz' = IF tap THEN handleTap(wiz, tapped(start, wiz.step)) ELSE wiz
             /\ drag' = rendered(wiz, wiz', ended)
    /\ UNCHANGED load
    /\ wizardOnly

\* The Reset button.
HandleFullReset ==
    /\ wiz.mounted
    /\ ~wiz.isLoading
    /\ wiz' = handleFullReset(wiz)
    /\ drag' = rendered(wiz, wiz', drag)
    /\ UNCHANGED load
    /\ wizardOnly

\* The Rotate button: handleRotate up to image.src = originalImageUrl.
HandleRotate ==
    /\ wiz.mounted
    /\ ~wiz.isLoading
    /\ wiz.step # "cropping"
    /\ wiz' = [handleFullReset(wiz) EXCEPT !.isLoading = TRUE]
    /\ drag' = rendered(wiz, wiz', drag)
    /\ load' = [kind |-> "rotate", newAngle |-> (wiz.rotationAngle + 90) % 360]
    /\ wizardOnly

\* image.onload of handleRotate.
RotateLoaded ==
    /\ load # Null
    /\ load.kind = "rotate"
    /\ wiz' = IF wiz.mounted
              THEN [wiz EXCEPT !.rotationAngle = load.newAngle,
                               !.rotatedImageUrl = rotatedUrl(load.newAngle),
                               !.isLoading = FALSE]
              ELSE wiz
    /\ load' = Null
    /\ UNCHANGED drag
    /\ wizardOnly

\* image.onload of handleRotate without a canvas context, and image.onerror.
RotateFailed ==
    /\ load # Null
    /\ load.kind = "rotate"
    /\ wiz' = IF wiz.mounted THEN [wiz EXCEPT !.isLoading = FALSE] ELSE wiz
    /\ load' = Null
    /\ UNCHANGED drag
    /\ wizardOnly

\* The Enable Cropping button.
EnableCropping ==
    /\ wiz.mounted
    /\ wiz.step # "cropping"
    /\ ~wiz.isLoading
    /\ wiz.croppedImageUrl = Null
    /\ wiz' = [wiz EXCEPT !.step = "cropping", !.cropRect = Null]
    /\ drag' = rendered(wiz, wiz', drag)
    /\ UNCHANGED load
    /\ wizardOnly

\* The Confirm Crop button: handleConfirmCrop up to image.src = sourceUrl.
HandleConfirmCrop ==
    /\ wiz.mounted
    /\ wiz.step = "cropping"
    /\ ~wiz.isLoading
    /\ wiz.cropRect # Null
    /\ wiz' = [wiz EXCEPT !.isLoading = TRUE]
    /\ load' = [kind |-> "crop",
                sourceUrl |-> IF wiz.rotatedImageUrl # Null THEN wiz.rotatedImageUrl
                              ELSE originalImageUrl,
                cropRect |-> wiz.cropRect]
    /\ UNCHANGED drag
    /\ wizardOnly

\* image.onload of handleConfirmCrop.
CropLoaded ==
    /\ load # Null
    /\ load.kind = "crop"
    /\ wiz' = IF wiz.mounted
              THEN LET img == imageRef(wiz)
                       scaleX == RDiv(img.naturalWidth, img.offsetWidth)
                       scaleY == RDiv(img.naturalHeight, img.offsetHeight)
                   IN  [wiz EXCEPT
                           !.croppedImageUrl =
                               croppedUrl(load.sourceUrl,
                                          RMul(load.cropRect.x, scaleX),
                                          RMul(load.cropRect.y, scaleY),
                                          RMul(load.cropRect.width, scaleX),
                                          RMul(load.cropRect.height, scaleY)),
                           !.topLeftPoint = Null, !.topRightPoint = Null,
                           !.bottomLeftPoint = Null,
                           !.controlNegative = Null, !.controlPositive = Null,
                           !.cropRect = Null,
                           !.step = "selectTopLeft",
                           !.isLoading = FALSE]
              ELSE wiz
    /\ drag' = rendered(wiz, wiz', drag)
    /\ load' = Null
    /\ wizardOnly

\* image.onload of handleConfirmCrop without a canvas context, and
\* image.onerror.
CropFailed ==
    /\ load # Null
    /\ load.kind = "crop"
    /\ wiz' = IF wiz.mounted THEN [wiz EXCEPT !.isLoading = FALSE] ELSE wiz
    /\ load' = Null
    /\ UNCHANGED drag
    /\ wizardOnly

\* The Cancel Crop button.
HandleCancelCrop ==
    /\ wiz.mounted
    /\ wiz.step = "cropping"
    /\ ~wiz.isLoading
    /\ wiz' = [wiz EXCEPT !.step = "selectTopLeft", !.cropRect = Null]
    /\ drag' = rendered(wiz, wiz', drag)
    /\ UNCHANGED load
    /\ wizardOnly

\* The Confirm Grid button.
ConfirmGrid ==
    /\ wiz.mounted
    /\ wiz.step = "confirmGrid"
    /\ wiz' = [wiz EXCEPT !.step = "controlPositive"]
    /\ drag' = rendered(wiz, wiz', drag)
    /\ UNCHANGED load
    /\ wizardOnly

\* The Confirm Concentrations button.
ConfirmConcentrations ==
    /\ wiz.mounted
    /\ wiz.step = "concentrations"
    /\ wiz' = [wiz EXCEPT !.step = "done"]
    /\ drag' = rendered(wiz, wiz', drag)
    /\ UNCHANGED load
    /\ wizardOnly

\* The Rows input: setRowCount(parseInt(e.target.value) || 2).
SetRowCount(Texts) ==
    /\ wiz.mounted
    /\ wiz.step = "confirmGrid"
    /\ \E t \in Texts :
         wiz' = setRowCount(wiz, IF parseInt(t).nan \/ parseInt(t).v = 0 THEN 2
                                 ELSE parseInt(t).v)
    /\ drag' = rendered(wiz, wiz', drag)
    /\ UNCHANGED load
    /\ wizardOnly

\* The Columns input: setColCount(parseInt(e.target.value) || 2).
SetColCount(Texts) ==
    /\ wiz.mounted
    /\ wiz.step = "confirmGrid"
    /\ \E t \in Texts :
         wiz' = [wiz EXCEPT !.colCount = IF parseInt(t).nan \/ parseInt(t).v = 0 THEN 2
                                         ELSE parseInt(t).v]
    /\ UNCHANGED << drag, load >>
    /\ wizardOnly

\* The concentration input of one row; the user types in the first
\* MaxTypedRows rows.
SetRowConcentration(Texts) ==
    /\ wiz.mounted
    /\ wiz.step \in {"concentrations", "done"}
    /\ \E i \in 1..Min2(Len(wiz.rowConcentrations), MaxTypedRows), t \in Texts :
         wiz' = [wiz EXCEPT !.rowConcentrations[i] = t]
    /\ UNCHANGED << drag, load >>
    /\ wizardOnly

(***************************************************************************)
(* The wizard on its own: taps, resets, rotations, crops and confirmations *)
(* on a parent that does nothing.                                          *)
(***************************************************************************)
\* processWellPlate has not been called.
InitNoCall ==
    /\ args = Null
    /\ pc = "idle"
    /\ radius = RadiusNaN
    /\ calib = NoCalib
    /\ row = 0
    /\ col = 0
    /\ results = << >>
    /\ promise = Null
    /\ samples = << >>
    /\ doseIn = ExampleDose
    /\ doseOut = NotCalled
    /\ colourIn = << >>
    /\ colourOut = NoColour

\* A point of the overlay, in the middle of the displayed image, and a point
\* far from it.
Inside == [x |-> Rat(1, 2), y |-> Rat(1, 2)]

FarAway == [x |-> RInt(12), y |-> Rat(1, 2)]

InitWizard ==
    /\ InitNoCall
    /\ wiz = InitialWizard
    /\ drag = DragIdle
    /\ load = Null
    /\ calls = Null
    /\ app = Null

NextWizard ==
    \/ InteractionStart({Inside}, {"overlay"})
    \/ InteractionMove({FarAway})
    \/ InteractionEnd({Inside})
    \/ HandleFullReset
    \/ HandleRotate
    \/ RotateLoaded
    \/ RotateFailed
    \/ EnableCropping
    \/ HandleConfirmCrop
    \/ CropLoaded
    \/ CropFailed
    \/ HandleCancelCrop
    \/ ConfirmGrid
    \/ ConfirmConcentrations

SpecWizard == InitWizard /\ [][NextWizard]_vars

(***************************************************************************)
(* The App component.  It serves one analysis at a time: while              *)
(* processWellPlate runs, 'processing' renders no control, so the call the  *)
(* pipeline variables describe is the only one in flight.                   *)
(***************************************************************************)
\* The empty string of imageUrl and processedImageUrl.
EmptyUrl == [kind |-> "empty"]

\* The initial state of App.  awaiting says that handleAnalysisComplete is
\* suspended at its await.
InitialApp ==
    [appState |-> "welcome", imageFile |-> Null,
     imageUrl |-> EmptyUrl, processedImageUrl |-> EmptyUrl,
     results |-> << >>, ic50 |-> IC50Null, error |-> "",
     gridConfig |-> Null, gridDimensions |-> [rows |-> 0, cols |-> 0],
     rowConcentrations |-> << >>, concentrationUnits |-> "nM",
     awaiting |-> FALSE]

handleImageUpload(a, file) ==
    [a EXCEPT !.imageFile = file, !.imageUrl = appImageUrl,
              !.processedImageUrl = appImageUrl, !.appState = "analyzing"]

handleReset(a) ==
    [a EXCEPT !.appState = "uploading", !.imageFile = Null,
              !.imageUrl = EmptyUrl, !.processedImageUrl = EmptyUrl,
              !.results = << >>, !.ic50 = IC50Null, !.error = "",
              !.gridConfig = Null, !.gridDimensions = [rows |-> 0, cols |-> 0],
              !.rowConcentrations = << >>, !.concentrationUnits = "nM"]

\* imageDataUrl || imageUrl
sourceImageUrl(a, call) ==
    IF call.imageDataUrl # Null /\ call.imageDataUrl # EmptyUrl THEN call.imageDataUrl
    ELSE a.imageUrl

\* handleAnalysisComplete up to its await.
handleAnalysisComplete(a, call) ==
    IF sourceImageUrl(a, call) = EmptyUrl THEN a
    ELSE [a EXCEPT !.processedImageUrl = sourceImageUrl(a, call),
                   !.gridConfig = call.gridConfig,
                   !.gridDimensions = [rows |-> call.rowCount, cols |-> call.colCount],
                   !.rowConcentrations = call.rowConcentrations,
                   !.concentrationUnits = call.concentrationUnits,
                   !.appState = "processing",
                   !.awaiting = TRUE]

\* Mutant: the continuation shows the results whatever the promise did.
analysisSettledAlwaysResults(a, settled) ==
    [a EXCEPT !.results = settled.wellResults, !.ic50 = settled.ic50,
              !.appState = "results", !.awaiting = FALSE]

\* handleAnalysisComplete after its await: the promise has settled.  A
\* rejection with an Error shows its message, a rejection with the error event
\* of the image the general message.
analysisSettled(a, settled) ==
    IF settled.state = "resolved"
    THEN [a EXCEPT !.results = settled.wellResults, !.ic50 = settled.ic50,
                   !.appState = "results", !.awaiting = FALSE]
    ELSE [a EXCEPT !.error = IF settled.error = "image error"
                              THEN "Analysis failed. Please try again."
                              ELSE settled.error,
                   !.appState = "error", !.awaiting = FALSE]

\* A number of the wizard as a number of the pipeline, which takes whole
\* numbers only.
wholeNumber(r) == CASE r.d = 1 -> r.n

wholePoint(p) == Pt(Num(wholeNumber(p.x)), Num(wholeNumber(p.y)))

isWhole(call) ==
    /\ \A p \in {call.gridConfig.origin, call.gridConfig.u, call.gridConfig.v,
                 call.controlNegative, call.controlPositive} : p.x.d = 1 /\ p.y.d = 1
    /\ \A i \in 1..Len(call.rowConcentrations) :
          ~call.rowConcentrations[i].nan /\ call.rowConcentrations[i].v.d = 1

\* The arguments of the processWellPlate call of handleAnalysisComplete, the
\* image at sourceImageUrl decoded: the URL of the file itself, the wizard's
\* or App's, gives the picture of the file.
processWellPlateCall(a, call) ==
    [image |-> CASE sourceImageUrl(a, call).kind = "blob" -> a.imageFile.image,
     gridConfig |-> [origin |-> wholePoint(call.gridConfig.origin),
                     u |-> wholePoint(call.gridConfig.u),
                     v |-> wholePoint(call.gridConfig.v)],
     rowCount |-> call.rowCount,
     colCount |-> call.colCount,
     controlNegativePoint |-> wholePoint(call.controlNegative),
     controlPositivePoint |-> wholePoint(call.controlPositive),
     rowConcentrations |-> [i \in 1..Len(call.rowConcentrations) |->
                               wholeNumber(call.rowConcentrations[i].v)]]

\* The Start button of the welcome page.
OnStart ==
    /\ app # Null
    /\ app.appState = "welcome"
    /\ app' = [app EXCEPT !.appState = "uploading"]
    /\ UNCHANGED << wiz, drag, load, calls >>
    /\ UNCHANGED pipeVars
    /\ UNCHANGED ownVars

\* ImageUploader hands over an image file; App renders PlateAnalyzer.
HandleImageUpload(Files) ==
    /\ app # Null
    /\ app.appState = "uploading"
    /\ \E file \in Files : app' = handleImageUpload(app, file)
    /\ wiz' = InitialWizard
    /\ drag' = DragIdle
    /\ UNCHANGED << load, calls >>
    /\ UNCHANGED pipeVars
    /\ UNCHANGED ownVars

\* handleReset: Cancel in the wizard, Analyze Another in the results, Try
\* Again after an error.  What it unmounts is gone, and so is the call that
\* has settled.
HandleReset ==
    /\ app # Null
    /\ app.appState \in {"analyzing", "results", "error"}
    /\ app.appState = "analyzing" => wiz.mounted
    /\ app' = handleReset(app)
    /\ wiz' = Unmounted
    /\ drag' = DragIdle
    /\ load' = Null
    /\ calls' = Null
    /\ args' = Null
    /\ pc' = "idle"
    /\ radius' = RadiusNaN
    /\ calib' = NoCalib
    /\ row' = 0
    /\ col' = 0
    /\ results' = << >>
    /\ promise' = Null
    /\ samples' = << >>
    /\ UNCHANGED ownVars

\* The Analyze button: handleAnalyze, and in App handleAnalysisComplete up to
\* the call of processWellPlate, which returns its promise.  Without App the
\* parent only records the call.
HandleAnalyze ==
    /\ wiz.mounted
    /\ wiz.step = "done"
    /\ ~wiz.isLoading
    /\ handleAnalyze(wiz) # Null
    /\ calls' = [call |-> handleAnalyze(wiz), wizard |-> wiz]
    /\ IF app = Null
       THEN /\ UNCHANGED << wiz, drag, load, app >>
            /\ UNCHANGED pipeVars
       ELSE /\ isWhole(handleAnalyze(wiz))
            /\ app' = handleAnalysisComplete(app, handleAnalyze(wiz))
            /\ wiz' = Unmounted
            /\ drag' = DragIdle
            /\ load' = Null
            /\ args' = processWellPlateCall(app, handleAnalyze(wiz))
            /\ pc' = "loading"
            /\ radius' = RadiusNaN
            /\ calib' = NoCalib
            /\ row' = 0
            /\ col' = 0
            /\ results' = << >>
            /\ promise' = Pending
            /\ samples' = << >>
    /\ UNCHANGED ownVars

\* The promise has settled: handleAnalysisComplete runs on from its await.
AnalysisSettled ==
    /\ app # Null
    /\ app.awaiting
    /\ promise # Null
    /\ promise.state \in {"resolved", "rejected"}
    /\ app' = analysisSettled(app, promise)
    /\ UNCHANGED << wiz, drag, load, calls >>
    /\ UNCHANGED pipeVars
    /\ UNCHANGED ownVars

(***************************************************************************)
(* The wizard's concentration and grid inputs, on a parent that records    *)
(* the calls.                                                              *)
(***************************************************************************)
\* What an <input type="number"> can hold, for the Rows input and for a
\* concentration.
RowCountTexts == {<< >>, << "0" >>, << "1" >>, << "2" >>, << "3" >>, << "-", "1" >>,
                  << "2", ".", "5" >>}

ColCountTexts == {<< "1" >>, << "2" >>}

ConcentrationTexts == {<< >>, << "0" >>, << "5" >>, << "-", "2" >>, << "1", ".", "5" >>}

NextTyping ==
    \/ InteractionStart({Inside}, {"overlay"})
    \/ InteractionEnd({Inside})
    \/ SetRowCount(RowCountTexts)
    \/ SetColCount(ColCountTexts)
    \/ ConfirmGrid
    \/ SetRowConcentration(ConcentrationTexts)
    \/ ConfirmConcentrations
    \/ HandleAnalyze
    \/ HandleFullReset

SpecTyping == InitWizard /\ [][NextTyping]_vars

(***************************************************************************)
(* The wizard's crop rectangle: draw, move and resize drags.  A mousedown  *)
(* or the touchstart of a single finger lies on the overlay; a touchstart  *)
(* while another finger rests elsewhere on the screen reports that         *)
(* finger's place (touches[0]), which may be off the overlay, as may every *)
(* move and end of a drag.                                                 *)
(***************************************************************************)
OnOverlay == {[x |-> Rat(1, 2), y |-> Rat(1, 2)]}

OffOverlay == {[x |-> RInt(3), y |-> RInt(1)]}

DragPlaces == {[x |-> RInt(-1), y |-> RInt(-1)], [x |-> RInt(1), y |-> RInt(1)],
               [x |-> RInt(3), y |-> RInt(2)]}

CropTargets == {"overlay", "move", "top-left", "right"}

NextCrop ==
    \/ EnableCropping
    \/ InteractionStart(OnOverlay \cup OffOverlay, CropTargets)
    \/ InteractionMove(DragPlaces)
    \/ InteractionEnd(DragPlaces)
    \/ HandleCancelCrop

SpecCrop == InitWizard /\ [][NextCrop]_vars

(***************************************************************************)
(* App from the welcome page: upload, calibration on the default layout or *)
(* a 2 x 2 grid, analysis by processWellPlate, results or error, reset.    *)
(* Analyze is pressed where the call's numbers are whole.                  *)
(***************************************************************************)
Files == {[image |-> [top |-> 1, bottom |-> 3]], [image |-> [top |-> 3, bottom |-> 1]]}

\* A point in the upper band of the displayed image and one in the lower.
UpperTap == [x |-> Rat(1, 2), y |-> Rat(1, 2)]

LowerTap == [x |-> Rat(1, 2), y |-> Rat(3, 2)]

InitApp ==
    /\ InitNoCall
    /\ wiz = Unmounted
    /\ drag = DragIdle
    /\ load = Null
    /\ calls = Null
    /\ app = InitialApp

NextApp ==
    \/ OnStart
    \/ HandleImageUpload(Files)
    \/ InteractionStart({UpperTap, LowerTap}, {"overlay"})
    \/ InteractionEnd({UpperTap})
    \/ SetRowCount({<< "2" >>})
    \/ SetColCount({<< "2" >>})
    \/ ConfirmGrid
    \/ SetRowConcentration({<< "1" >>, << "2" >>})
    \/ ConfirmConcentrations
    \/ HandleFullReset
    \/ HandleAnalyze
    \/ OnError
    \/ OnLoadNoContext
    \/ OnLoad
    \/ SampleReferences
    \/ ProcessWell
    \/ Finish
    \/ AnalysisSettled
    \/ HandleReset

SpecApp == InitApp /\ [][NextApp]_vars

(***************************************************************************)
(* Properties.                                                             *)
(***************************************************************************)
settled == pc = "done"

\* C1: a resolved processWellPlate holds exactly rowCount * colCount
\* WellResults, the i-th (from 0) being the well of row i div colCount and
\* column i mod colCount: row-major order, every (row, col) once.
C1_RowMajor ==
    promise.state = "resolved" =>
        /\ Len(promise.wellResults) = args.rowCount * args.colCount
        /\ \A i \in 1..Len(promise.wellResults) :
              /\ promise.wellResults[i].row = (i - 1) \div args.colCount
              /\ promise.wellResults[i].col = (i - 1) % args.colCount

C1_Witness ==
    /\ promise.state = "resolved"
    /\ args.rowCount = 2
    /\ args.colCount = 2
    /\ Len(promise.wellResults) = 4

\* C2: every WellResult has 0 <= intensity <= 1 and viability = 100 *
\* intensity, so 0 <= viability <= 100.
C2_IntensityRange ==
    \A i \in 1..Len(results) :
        /\ RLeq(RInt(0), results[i].intensity)
        /\ RLeq(results[i].intensity, RInt(1))
        /\ RDiv(results[i].viability, RInt(100)) = results[i].intensity
        /\ RLeq(RInt(0), results[i].viability)
        /\ RLeq(results[i].viability, RInt(100))

\* A well strictly inside the scale and a well at its upper end.
C2_Witness ==
    /\ \E i \in 1..Len(results) :
          RLess(RInt(0), results[i].intensity) /\ RLess(results[i].intensity, RInt(1))
    /\ \E i \in 1..Len(results) : results[i].intensity = RInt(1)

\* The number of strictly positive entries.
nPositive(concs) == Cardinality({i \in 1..Len(concs) : concs[i] > 0})

called == doseOut # NotCalled

\* C3: calculateIC50 never throws: every call returns a value or absent.
C3_NeverThrows == doseOut.kind # "throws"

\* The radius check and the reference sampling have succeeded.
referencesSucceeded ==
    /\ Len(samples) >= 2
    /\ Len(samples[1].pixels) > 0
    /\ Len(samples[2].pixels) > 0

\* C4: once the radius check and the reference sampling have succeeded and
\* the well loop is over, the call has resolved with all rowCount * colCount
\* well results, and with ic50 absent when fewer than two doses are positive.
C4_IC50FailureNotFatal ==
    (referencesSucceeded /\ pc \notin {"loading", "references", "wells"}) =>
        /\ promise.state = "resolved"
        /\ Len(promise.wellResults) = args.rowCount * args.colCount
        /\ (nPositive(args.rowConcentrations) < 2 => promise.ic50 = IC50Null)

\* The grid gives a zero or non-finite radius: a step vector is zero or has a
\* component that is not a number.
zeroOrNonFiniteRadius(g) ==
    \/ g.u.x.nan \/ g.u.y.nan \/ g.v.x.nan \/ g.v.y.nan
    \/ (g.u.x.v = 0 /\ g.u.y.v = 0)
    \/ (g.v.x.v = 0 /\ g.v.y.v = 0)

\* C5: with a zero or non-finite radius no pixel is ever sampled, no well
\* result is produced, and once the load event is handled the call is
\* rejected.
C5_InvalidRadiusFailsFast ==
    zeroOrNonFiniteRadius(args.gridConfig) =>
        /\ samples = << >>
        /\ results = << >>
        /\ (pc # "loading" => pc = "done" /\ promise.state = "rejected")

C5_Witness ==
    /\ zeroOrNonFiniteRadius(args.gridConfig)
    /\ pc = "done"
    /\ promise = Rejected("Could not determine a valid well radius")
    /\ samples = << >>

\* No position the sample was read at lies inside the image.
noInBoundsPixel(s) == \A j \in 1..Len(s.at) : ~InBounds(s.at[j].x, s.at[j].y)

\* C6: if the disk of either calibration point holds no in-bounds pixel, the
\* call is rejected and produces no well result.
C6_EmptyReferenceRejected ==
    (Len(samples) >= 2 /\ (noInBoundsPixel(samples[1]) \/ noInBoundsPixel(samples[2]))) =>
        /\ promise.state = "rejected"
        /\ results = << >>

\* C7: every pixel getPixelData returns was read at a position inside the
\* image (so a disk wholly outside the image gives the empty sequence).
C7_OnlyInBoundsSamples ==
    \A k \in 1..Len(samples) :
        /\ Len(samples[k].at) = Len(samples[k].pixels)
        /\ \A j \in 1..Len(samples[k].at) :
              InBounds(samples[k].at[j].x, samples[k].at[j].y)

\* The dose points of a call, from its inputs alone: one for each index i of
\* rowConcentrations with a positive concentration whose row i - 1 (below
\* rowCount) has wells, with the mean viability of these wells.
wellsInRow(wells, r) == {k \in 1..Len(wells) : wells[k].row = r}

RECURSIVE viabilitySum(_, _)
viabilitySum(wells, ks) ==
    IF ks = {} THEN RInt(0)
    ELSE LET k == CHOOSE x \in ks : TRUE
         IN  RAdd(wells[k].viability, viabilitySum(wells, ks \ {k}))

dosePoints(in) ==
    {[idx |-> i,
      concentration |-> in.rowConcentrations[i],
      viability |-> RDiv(viabilitySum(in.wellResults, wellsInRow(in.wellResults, i - 1)),
                         RInt(Cardinality(wellsInRow(in.wellResults, i - 1))))] :
        i \in {j \in 1..Len(in.rowConcentrations) :
                  /\ in.rowConcentrations[j] > 0
                  /\ j <= in.rowCount
                  /\ wellsInRow(in.wellResults, j - 1) # {}}}

\* p comes before q in ascending order of concentration (ties in row order).
before(p, q) ==
    \/ p.concentration < q.concentration
    \/ p.concentration = q.concentration /\ p.idx < q.idx

adjacent(pts, p, q) == before(p, q) /\ ~\E m \in pts : before(p, m) /\ before(m, q)

crossesFifty(p, q) ==
    \/ RLeq(RInt(50), p.viability) /\ RLess(q.viability, RInt(50))
    \/ RLess(p.viability, RInt(50)) /\ RLeq(RInt(50), q.viability)

someCrossing(pts) == \E p \in pts : \E q \in pts : adjacent(pts, p, q) /\ crossesFifty(p, q)

\* c1 + (50 - v1) * (c2 - c1) / (v2 - v1) with p1 = lo and p2 = hi.
lineAtFifty(lo, hi) ==
    RAdd(RInt(lo.concentration),
         RDiv(RMul(RSub(RInt(50), lo.viability), RInt(hi.concentration - lo.concentration)),
              RSub(hi.viability, lo.viability)))

\* C8: a value calculateIC50 returns is p1.c + (50 - p1.v)(p2.c - p1.c) /
\* (p2.v - p1.v) for an adjacent pair of the sorted dose points that crosses
\* 50, p1 its lower-viability point; and the series (1,90), (10,60),
\* (100,40), (1000,10) gives exactly 55.
C8_Interpolation ==
    LET pts == dosePoints(doseIn)
    IN  /\ doseOut.kind = "value" =>
              \E p \in pts : \E q \in pts :
                  /\ adjacent(pts, p, q)
                  /\ crossesFifty(p, q)
                  /\ LET lo == IF RLess(p.viability, q.viability) THEN p ELSE q
                         hi == IF RLess(p.viability, q.viability) THEN q ELSE p
                     IN  doseOut.value = lineAtFifty(lo, hi)
        /\ (called /\ doseIn = ExampleDose) => doseOut = IC50Value(RInt(55), Units)

C8_Witness ==
    /\ doseIn = ExampleDose
    /\ doseOut = IC50Value(RInt(55), Units)

\* C9: with fewer than two strictly positive concentrations the call returns
\* absent, whatever the wells.
C9_FewDosesAbsent ==
    (called /\ nPositive(doseIn.rowConcentrations) < 2) => doseOut = IC50Null

C9_Witness ==
    /\ doseOut = IC50Null
    /\ nPositive(doseIn.rowConcentrations) = 1
    /\ Len(doseIn.rowConcentrations) > doseIn.rowCount
    /\ doseIn.wellResults # << >>

\* C10: when no adjacent pair of the sorted dose points crosses 50, the call
\* returns absent.
C10_NoCrossingAbsent ==
    (called /\ ~someCrossing(dosePoints(doseIn))) => doseOut = IC50Null

\* The sample the i-th well result was computed from: the two reference
\* samples come first, then one sample a well.
sampleOfWell(i) == samples[i + 2]

\* C11: with a usable calibration axis, a well that has sampled pixels and
\* whose representative colour is the low reference colour has intensity 0,
\* and one whose representative colour is the high reference colour has
\* intensity 1.
C11_ReferencesAreEndPoints ==
    \A i \in 1..Len(results) :
        (axisUsable(calib) /\ Len(sampleOfWell(i).pixels) > 0) =>
            /\ (results[i].avgColor = calib.minRefRgb => results[i].intensity = RInt(0))
            /\ (results[i].avgColor = calib.maxRefRgb => results[i].intensity = RInt(1))

C11_Witness ==
    /\ axisUsable(calib)
    /\ \E i \in 1..Len(results) :
          /\ Len(sampleOfWell(i).pixels) > 0
          /\ results[i].avgColor = calib.minRefRgb
          /\ results[i].intensity = RInt(0)
    /\ \E i \in 1..Len(results) :
          /\ Len(sampleOfWell(i).pixels) > 0
          /\ results[i].avgColor = calib.maxRefRgb
          /\ results[i].intensity = RInt(1)

\* The well loop has run to its end.
loopOver == pc \in {"done", "thrown"} /\ referencesSucceeded

\* C12: a well computed under an unusable calibration axis (squared gradient
\* magnitude not above the epsilon) or from zero sampled pixels has intensity
\* 0 and viability 0; no such well ends the analysis: the call is not
\* rejected after the references, and the loop emits all rowCount * colCount
\* wells.
C12_DegenerateForcedToZero ==
    /\ \A i \in 1..Len(results) :
          (~axisUsable(calib) \/ Len(sampleOfWell(i).pixels) = 0) =>
              /\ results[i].intensity = RInt(0)
              /\ results[i].viability = RInt(0)
    /\ referencesSucceeded => promise.state # "rejected"
    /\ loopOver => Len(results) = args.rowCount * args.colCount

\* A degenerate calibration whose wells were all emitted.
C12_Witness ==
    /\ loopOver
    /\ ~axisUsable(calib)
    /\ Len(results) = 4
    /\ \A i \in 1..4 : Len(sampleOfWell(i).pixels) > 0 /\ results[i].intensity = RInt(0)

\* A usable calibration and wells without pixels, all emitted.
C12_WitnessNoPixels ==
    /\ loopOver
    /\ axisUsable(calib)
    /\ Len(results) = 4
    /\ \A i \in 1..4 : Len(sampleOfWell(i).pixels) = 0 /\ results[i].viability = RInt(0)

\* C13: the centre of every emitted WellResult is origin + col * u + row * v
\* on each axis (not a number when a term is not), and in the grid origin
\* (0,0), u = (10,0), v = (0,10) the well of row 2, col 3 is at (30,20).
C13_CenterFormula ==
    LET g == args.gridConfig
        along(o, uu, vv, r, c) ==
            IF o.nan \/ uu.nan \/ vv.nan THEN NaN ELSE Num(o.v + c * uu.v + r * vv.v)
    IN  /\ \A i \in 1..Len(results) :
              /\ results[i].center.x
                     = along(g.origin.x, g.u.x, g.v.x, results[i].row, results[i].col)
              /\ results[i].center.y
                     = along(g.origin.y, g.u.y, g.v.y, results[i].row, results[i].col)
        /\ args = ExampleGridArgs =>
              \A i \in 1..Len(results) :
                  (results[i].row = 2 /\ results[i].col = 3) =>
                      results[i].center = P(30, 20)

C13_Witness ==
    /\ args = ExampleGridArgs
    /\ \E i \in 1..Len(results) :
          results[i].row = 2 /\ results[i].col = 3 /\ results[i].center = P(30, 20)

\* The Lab colours of the pixels of colourIn, as a sequence.
labOfPixels == << >> \o [i \in 1..Len(colourIn) |-> rgbToLab(colourIn[i])]

\* The Lab median m lies on every channel within the range of the pixels
\* of colourIn other than the k-th.
withinOthers(m, k) ==
    LET others == (1..Len(colourIn)) \ {k}
        lab == labOfPixels
    IN  /\ \E i \in others : lab[i].l <= m.l
        /\ \E i \in others : m.l <= lab[i].l
        /\ \E i \in others : lab[i].a <= m.a
        /\ \E i \in others : m.a <= lab[i].a
        /\ \E i \in others : lab[i].b <= m.b
        /\ \E i \in others : m.b <= lab[i].b

\* The k-th pixel of colourIn is an outlier and every other one is a pixel of
\* the cluster.
oneOutlierAt(k) ==
    /\ colourIn[k] \in OutlierColours
    /\ \A i \in (1..Len(colourIn)) \ {k} : colourIn[i] \in ClusterColours

\* C14: for N >= 1 cluster pixels and one outlier, the Lab median of
\* getRobustAverageColor lies within the cluster's range on every channel.
C14_MedianWithinCluster ==
    (colourOut.kind = "estimate" /\ Len(colourIn) >= 2) =>
        \A k \in 1..Len(colourIn) : oneOutlierAt(k) => withinOthers(colourOut.median, k)

\* C14 as amended: the same for N >= 2 cluster pixels.
C14_MedianWithinClusterOfTwo ==
    (colourOut.kind = "estimate" /\ Len(colourIn) >= 3) =>
        \A k \in 1..Len(colourIn) : oneOutlierAt(k) => withinOthers(colourOut.median, k)

C14_Witness ==
    /\ colourOut.kind = "estimate"
    /\ Len(colourIn) = 4
    /\ oneOutlierAt(2)
    /\ colourIn[1] # colourIn[3]
    /\ withinOthers(colourOut.median, 2)

\* C15: labToRgb(rgbToLab(rgb)) = rgb for an RGB triple of integer channels
\* in 0..255.
C15_RoundTrip ==
    colourOut.kind = "roundtrip" => colourOut.rgb = colourIn[1]

\* A round trip through both branches of the sRGB curve, away from grey.
C15_Witness ==
    /\ colourOut.kind = "roundtrip"
    /\ colourIn[1] = [r |-> 10, g |-> 200, b |-> 255]
    /\ colourOut.median.a # 0
    /\ colourOut.rgb = colourIn[1]

\* C16: getRobustAverageColor returns (0,0,0) for no pixel and the pixel
\* itself for one pixel.
C16_EmptyAndSingle ==
    colourOut.kind = "estimate" =>
        /\ (Len(colourIn) = 0 => colourOut.rgb = [r |-> 0, g |-> 0, b |-> 0])
        /\ (Len(colourIn) = 1 => colourOut.rgb = colourIn[1])

C16_Witness ==
    /\ colourOut.kind = "estimate"
    /\ colourIn = << [r |-> 1, g |-> 254, b |-> 11] >>
    /\ colourOut.rgb = [r |-> 1, g |-> 254, b |-> 11]

\* The estimator called on no pixel.
C16_WitnessEmpty ==
    /\ colourOut.kind = "estimate"
    /\ colourIn = << >>
    /\ colourOut.rgb = [r |-> 0, g |-> 0, b |-> 0]

\* (p, q) is a crossing pair of pts.
crossingAt(pts, p, q) == adjacent(pts, p, q) /\ crossesFifty(p, q)

\* The interpolation on the pair (p, q), from its lower-viability point.
valueOn(p, q) ==
    IF RLess(p.viability, q.viability) THEN lineAtFifty(p, q) ELSE lineAtFifty(q, p)

\* C17: a value calculateIC50 returns is interpolated on the first crossing
\* pair in ascending concentration order: no crossing pair comes before the
\* pair it used.
C17_FirstCrossingUsed ==
    LET pts == dosePoints(doseIn)
    IN  doseOut.kind = "value" =>
            \E p \in pts : \E q \in pts :
                /\ crossingAt(pts, p, q)
                /\ ~\E p2 \in pts : \E q2 \in pts : crossingAt(pts, p2, q2) /\ before(p2, p)
                /\ doseOut.value = valueOn(p, q)

\* Two crossing pairs that interpolate to different values.
C17_Witness ==
    LET pts == dosePoints(doseIn)
    IN  /\ doseOut.kind = "value"
        /\ \E p \in pts : \E q \in pts : \E p2 \in pts : \E q2 \in pts :
              /\ crossingAt(pts, p, q)
              /\ crossingAt(pts, p2, q2)
              /\ before(p, p2)
              /\ doseOut.value = valueOn(p, q)
              /\ valueOn(p, q) # valueOn(p2, q2)

\* C18: calculateIC50 works on exactly one (concentration, mean viability)
\* point for each row index with a strictly positive concentration and at
\* least one well, and returns absent when fewer than two points remain.
C18_DosePoints ==
    LET pts == dosePoints(doseIn)
        dp == dataPoints(doseIn.wellResults, doseIn.rowConcentrations, doseIn.rowCount)
    IN  (called /\ nPositive(doseIn.rowConcentrations) >= 2) =>
            /\ doseOut.kind # "throws"
            /\ Len(dp) = Cardinality(pts)
            /\ \A k \in 1..Len(dp) :
                  \E p \in pts : /\ p.concentration = dp[k].concentration
                                 /\ p.viability = dp[k].viability
            /\ (Cardinality(pts) < 2 => doseOut = IC50Null)

\* The positions of the square [c - r, c + r] x [c - r, c + r] at distance
\* at most r from the centre c.
diskPositions(c, r) ==
    {Pt(c.x.v + dx, c.y.v + dy) : << dx, dy >> \in
        {d \in ((-r)..r) \X ((-r)..r) : d[1] * d[1] + d[2] * d[2] <= r * r}}

\* C19: a sample taken at a centre with integer radius r holds exactly the
\* pixels of the square from centre - r to centre + r, both ends included,
\* that are at distance at most r from the centre.
C19_InclusiveDisk ==
    \A k \in 1..Len(samples) :
        (~samples[k].center.x.nan /\ ~samples[k].center.y.nan) =>
            {samples[k].at[j] : j \in 1..Len(samples[k].at)}
                = diskPositions(samples[k].center, samples[k].used)

\* The largest integer whose square is at most sq: Math.floor of the root.
RECURSIVE floorSqrtFrom(_, _)
floorSqrtFrom(sq, k) ==
    IF RLeq(RInt((k + 1) * (k + 1)), sq) THEN floorSqrtFrom(sq, k + 1) ELSE k

\* C20: the integer radius of every sample is max(1, floor(radius)).
C20_RadiusFloored ==
    \A k \in 1..Len(samples) :
        ~radius.nan => samples[k].used = Max2(1, floorSqrtFrom(radius.sq, 0))

\* The k-th order statistic (k from 1) of the values vals[i], i in 1..n.
orderStatistic(vals, n, k) ==
    CHOOSE v \in {vals[i] : i \in 1..n} :
        /\ Cardinality({i \in 1..n : vals[i] < v}) < k
        /\ Cardinality({i \in 1..n : vals[i] <= v}) >= k

\* The median of n values by order statistics.
medianByRank(vals, n) ==
    IF n % 2 = 1 THEN orderStatistic(vals, n, n \div 2 + 1)
    ELSE (orderStatistic(vals, n, n \div 2) + orderStatistic(vals, n, n \div 2 + 1)) \div 2

\* C21: for two or more pixels the Lab colour getRobustAverageColor converts
\* back has, on each channel separately, the median of that channel over
\* all pixels: the middle order statistic for an odd count, the average of
\* the two central ones for an even count.
C21_PerChannelMedian ==
    (colourOut.kind = "estimate" /\ Len(colourIn) >= 2) =>
        LET n == Len(colourIn)
            lab == labOfPixels
        IN  /\ colourOut.median.l = medianByRank(<< >> \o [i \in 1..n |-> lab[i].l], n)
            /\ colourOut.median.a = medianByRank(<< >> \o [i \in 1..n |-> lab[i].a], n)
            /\ colourOut.median.b = medianByRank(<< >> \o [i \in 1..n |-> lab[i].b], n)

\* An even count whose two central values differ on L, and whose median is
\* the Lab colour of none of the pixels.
C21_Witness ==
    LET n == Len(colourIn)
        lab == labOfPixels
        ls == << >> \o [i \in 1..n |-> lab[i].l]
    IN  /\ colourOut.kind = "estimate"
        /\ n = 4
        /\ orderStatistic(ls, n, 2) # orderStatistic(ls, n, 3)
        /\ colourOut.median.l = medianByRank(ls, n)
        /\ \A i \in 1..n : lab[i] # colourOut.median

\* C22: the id of a well is a row letter followed by its 1-based column
\* number, and no two wells of one result list share an id.
rowLetters == 65..90

C22_LetterIds ==
    /\ \A i \in 1..Len(results) :
           /\ results[i].id[1] \in rowLetters
           /\ results[i].id[2] = results[i].col + 1
    /\ \A i \in 1..Len(results) : \A j \in 1..Len(results) :
           results[i].id = results[j].id => i = j

\* The dose points of the crossing pair calculateIC50Rounded interpolates
\* between: the first adjacent pair of the sorted points that crosses 50.
crossingPairOf(in) ==
    LET byRow == viabilitiesByRow(in.wellResults, in.rowCount)
        points == sortPoints(pointsOf([i \in 1..Len(in.rowConcentrations) |->
                      dataPointOfRounded(in.rowConcentrations, byRow, i)]))
    IN  crossingPair(points, firstCrossing(points, 1))

\* C23: a value calculateIC50 returns lies between the concentrations of the
\* two dose points of the crossing pair, and is strictly positive.
C23_WithinCrossingPair ==
    doseOut.kind = "value" =>
        LET c1 == crossingPairOf(doseIn)[1].concentration
            c2 == crossingPairOf(doseIn)[2].concentration
        IN  /\ RLeq(RInt(Min2(c1, c2)), doseOut.value)
            /\ RLeq(doseOut.value, RInt(Max2(c1, c2)))
            /\ RLess(RInt(0), doseOut.value)

\* C24: once the load or error event has fired, the processWellPlate call
\* settles; as a run of the callback is finite, when the callback is over
\* (by return or by an exception) the promise is resolved or rejected.
callbackOver == pc \in {"done", "thrown"}

C24_CallbackSettles == callbackOver => promise.state \in {"resolved", "rejected"}

calibrationPoints(w) ==
    {p \in {w.topLeftPoint, w.topRightPoint, w.bottomLeftPoint,
            w.controlNegative, w.controlPositive} : p # Null}

\* C26: in the wizard, whenever step is 'done', the three grid corners and
\* both control points are set.
C26_DoneHasAllPoints ==
    (wiz.mounted /\ wiz.step = "done") =>
        /\ wiz.topLeftPoint # Null
        /\ wiz.topRightPoint # Null
        /\ wiz.bottomLeftPoint # Null
        /\ wiz.controlNegative # Null
        /\ wiz.controlPositive # Null

\* Step 'done' has been reached after a reset and a rotation.
C26_Witness ==
    /\ wiz.mounted
    /\ wiz.step = "done"
    /\ wiz.rotationAngle = 180
    /\ Cardinality(calibrationPoints(wiz)) >= 1

\* C27: once a rotation has completed and the rotated image is displayed, no
\* corner or control point tapped on the image shown before is still set.
C27_NoPointOfOldImage ==
    (wiz.mounted /\ load = Null /\ wiz.rotatedImageUrl # Null /\ wiz.croppedImageUrl = Null) =>
        \A p \in calibrationPoints(wiz) : p.on = displayImageUrl(wiz)

\* C28: every onAnalysisComplete call of the wizard passes one number per
\* row, none of them NaN, and at least two of them positive.
C28_OneNumberPerRow ==
    calls # Null =>
        LET c == calls.call
        IN  /\ Len(c.rowConcentrations) = c.rowCount
            /\ \A i \in 1..Len(c.rowConcentrations) : ~c.rowConcentrations[i].nan
            /\ Cardinality({i \in 1..Len(c.rowConcentrations) :
                                c.rowConcentrations[i].v.n > 0}) >= 2

\* A call made after the number of rows was changed to three, one of the
\* inputs left blank.
C28_Witness ==
    /\ calls # Null
    /\ calls.call.rowCount = 3
    /\ \E i \in 1..3 : calls.wizard.rowConcentrations[i] = << >>

\* C30: the crop rectangle lies inside the displayed image.
C30_CropRectInside ==
    (wiz.mounted /\ wiz.cropRect # Null) =>
        LET r == wiz.cropRect
            img == imageRef(wiz)
        IN  /\ r.x.n >= 0
            /\ r.y.n >= 0
            /\ r.width.n >= 0
            /\ r.height.n >= 0
            /\ RLeq(RAdd(r.x, r.width), img.offsetWidth)
            /\ RLeq(RAdd(r.y, r.height), img.offsetHeight)

\* The point the user tapped at a step of the wizard that made the call.
tappedAt(step) == CHOOSE p \in calibrationPoints(calls.wizard) : p.at = step

\* A tapped point in image pixels.
inImagePixels(p) == Pt(Num(wholeNumber(RMul(p.x, RInt(Zoom)))),
                       Num(wholeNumber(RMul(p.y, RInt(Zoom)))))

\* C25: the point tapped at step 'controlPositive' is the one processWellPlate
\* samples as the high reference (maxColor, intensity 1), the point tapped at
\* step 'controlNegative' the one it samples as the low reference (minColor,
\* intensity 0).
C25_ReferencesNotSwapped ==
    (pc \in {"wells", "done", "thrown"} /\ Len(samples) >= 2) =>
        /\ samples[1].center = inImagePixels(tappedAt("controlNegative"))
        /\ samples[2].center = inImagePixels(tappedAt("controlPositive"))
        /\ (pc = "wells" =>
              /\ calib.minRefRgb = getRobustAverageColor(samples[1].pixels)
              /\ calib.maxRefRgb = getRobustAverageColor(samples[2].pixels))

\* An analysis has resolved whose two references were tapped at different
\* points, on different colours.
C25_Witness ==
    /\ pc = "done"
    /\ promise.state = "resolved"
    /\ xy(tappedAt("controlPositive")) = UpperTap
    /\ xy(tappedAt("controlNegative")) = LowerTap
    /\ samples[1].pixels # samples[2].pixels

appCleared ==
    /\ app.results = << >>
    /\ app.ic50 = IC50Null
    /\ app.error = ""
    /\ app.gridConfig = Null

\* C29: App enters 'results' only from 'processing' with the promise of
\* processWellPlate resolved, and 'error' only from 'processing' with it
\* rejected; in 'results' the results and ic50 are those the promise of the
\* last call resolved with; in 'uploading', so after every handleReset,
\* results is empty, ic50 null, error empty and gridConfig null.
C29_AppStateMachine ==
    /\ [][((app.appState # "results" /\ app'.appState = "results") =>
              (app.appState = "processing" /\ promise.state = "resolved"))
          /\ ((app.appState # "error" /\ app'.appState = "error") =>
                (app.appState = "processing" /\ promise.state = "rejected"))
          /\ ((app.appState # "uploading" /\ app'.appState = "uploading") =>
                (app.appState = "welcome" \/ app' = handleReset(app)))]_vars
    /\ [](app.appState = "results" =>
            (/\ promise.state = "resolved"
             /\ app.results = promise.wellResults
             /\ app.ic50 = promise.ic50
             /\ app.gridConfig = calls.call.gridConfig))
    /\ [](app.appState = "uploading" => appCleared)

\* The results of an analysis of four wells are shown.
C29_Witness ==
    /\ app # Null
    /\ app.appState = "results"
    /\ Len(app.results) = 4
    /\ app.ic50 # IC50Null

====
